---- MODULE Spec2Model ----
(***************************************************************************)
(* Multi-Domain Intelligence Platform: the authentication layer            *)
(* (services/auth_manager.py, app/auth.py, Home.py, the pages' session     *)
(* gate) and the domain record services (incident, ticket, dataset).       *)
(***************************************************************************)
EXTENDS Integers, Sequences, FiniteSets, TLC

VARIABLES
    users,      \* the users table: a sequence of rows, in insertion order
    session,    \* st.session_state: logged_in, username, role, user_id
    last,       \* the last finished handler run of the auth layer, and its result
    pend,       \* per caller: a register call between its existence check and its insert
    incidents,  \* the cyber_incidents table: a set of rows
    tickets,    \* the it_tickets table: a set of rows
    datasets,   \* the datasets_metadata table: a set of rows
    issued,     \* per record service: the largest id its create has returned, or 0
    rec,        \* the last finished call of a domain record service, and its result
    cpend,      \* per caller: a create call between its MAX(id) read and its insert
    db,         \* per DatabaseManager: its _connection and the connections it opened
    run         \* the last finished page run (unit of work) and how it ended

vars == <<users, session, last, pend, incidents, tickets, datasets, issued, rec,
          cpend, db, run>>
authVars == <<users, session, last, pend>>
recVars == <<incidents, tickets, datasets, issued, rec>>
storeVars == <<cpend, db, run>>

\* An optional value (Python's X or None): None, or Some(x).
None == << >>
Some(x) == <<x>>
Get(opt) == opt[1]

(***************************************************************************)
(* Bounds of the model.                                                    *)
(***************************************************************************)
\* Largest number of rows the users table is let grow to.
MaxUsers == 2
\* Largest number of rows over the three domain tables together, and largest
\* distance of an id from its table's floor.
MaxRows == 2
\* Largest number of successful creates of one behaviour of the record services.
MaxCreates == 3
\* Largest number of connections one DatabaseManager is let open over its life.
MaxConnects == 2

(***************************************************************************)
(* Inputs.  A password is a sequence of characters, a username a string.   *)
(***************************************************************************)
UpperChars == {"A", "B", "C", "D", "E", "F", "G", "H", "I", "J", "K", "L", "M",
               "N", "O", "P", "Q", "R", "S", "T", "U", "V", "W", "X", "Y", "Z"}
LowerChars == {"a", "b", "c", "d", "e", "f", "g", "h", "i", "j", "k", "l", "m",
               "n", "o", "p", "q", "r", "s", "t", "u", "v", "w", "x", "y", "z"}
\* The decimal digits, and the characters str.isdigit() is true of: the decimal
\* digits and the other characters with a digit value, here the superscript two.
DecimalDigits == {"0", "1", "2", "3", "4", "5", "6", "7", "8", "9"}
DigitChars == DecimalDigits \cup {"²"}

PwEmpty == << >>
PwShort1A == <<"s", "h", "o", "r", "t", "1", "A">>
PwAllLower1 == <<"a", "l", "l", "l", "o", "w", "e", "r", "c", "a", "s", "e", "1">>
PwAllUpper1 == <<"A", "L", "L", "U", "P", "P", "E", "R", "1">>
PwNoDigits == <<"N", "o", "D", "i", "g", "i", "t", "s", "H", "e", "r", "e">>
PwGoodPass1 == <<"G", "o", "o", "d", "P", "a", "s", "s", "1">>
PwOtherPass2 == <<"O", "t", "h", "e", "r", "P", "a", "s", "s", "2">>
PwSuperscript == <<"G", "o", "o", "d", "P", "a", "s", "s", "²">>
\* Two passwords of 73 characters, one byte each, that differ in the last only.
PwLongX == [i \in 1..73 |-> IF i = 1 THEN "A" ELSE IF i = 2 THEN "1"
                            ELSE IF i = 73 THEN "x" ELSE "a"]
PwLongY == [i \in 1..73 |-> IF i = 1 THEN "A" ELSE IF i = 2 THEN "1"
                            ELSE IF i = 73 THEN "y" ELSE "a"]

\* The passwords of section 8 of the specification, and a second strong one.
Passwords == {PwEmpty, PwShort1A, PwAllLower1, PwAllUpper1, PwNoDigits,
              PwGoodPass1, PwOtherPass2}
StrongPasswords == {PwGoodPass1, PwOtherPass2}
\* The passwords the handlers are driven with: empty, weak, and two strong ones.
AuthPasswords == {PwEmpty, PwNoDigits} \cup StrongPasswords
Usernames == {"", "al", "alice", "bob"}
ValidUsernames == {"alice", "bob"}
Roles == {"user", "admin"}
Salts == {"s1"}
Callers == {"c1", "c2"}
\* Where the store fails during one call: nowhere, on its read, or on its write.
Faults == {"none", "read", "write"}

(***************************************************************************)
(* Messages of the auth layer, as the code spells them.                    *)
(***************************************************************************)
MsgRequired == "Username and password are required"
MsgShortUser == "Username must be at least 3 characters"
MsgPwLength == "Password must be at least 8 characters long"
MsgPwUpper == "Password must contain at least one uppercase letter"
MsgPwLower == "Password must contain at least one lowercase letter"
MsgPwDigit == "Password must contain at least one number"
MsgPwValid == "Password is valid"
MsgExists == "Username already exists"
MsgRegistered == "User registered successfully"
MsgRegFailed == "Registration failed"
MsgNotFound == "User not found"
MsgIncorrect == "Incorrect password"
MsgLoginOk == "Login successful"
MsgAuthError == "Authentication error"
MsgEnterBoth == "Please enter both username and password"
MsgInvalidLogin == "Invalid username or password"
MsgWelcome == "Welcome back"

(***************************************************************************)
(* Credential manager.                                                     *)
(***************************************************************************)
\* The builds of the bcrypt library: before release 5.0 a password longer than
\* 72 bytes is cut to its first 72 bytes, from 5.0 on it raises ValueError.
Builds == {"truncate", "raise"}

\* bcrypt.hashpw: a digest that embeds its salt and is injective in the first 72
\* bytes of the password.
hashpw(password, salt, build) ==
    IF Len(password) > 72 /\ build = "raise"
    THEN [raised |-> TRUE, hash |-> << >>]
    ELSE [raised |-> FALSE,
          hash |-> [wellformed |-> TRUE, salt |-> salt,
                    digest |-> SubSeq(password, 1,
                                      IF Len(password) > 72 THEN 72 ELSE Len(password))]]

\* bcrypt.checkpw: hashpw under the salt the hash embeds, compared with the hash;
\* a value that is no bcrypt hash raises.
checkpw(password, hashed_password, build) ==
    IF ~hashed_password.wellformed
    THEN [raised |-> TRUE, match |-> FALSE]
    ELSE IF hashpw(password, hashed_password.salt, build).raised
    THEN [raised |-> TRUE, match |-> FALSE]
    ELSE [raised |-> FALSE,
          match |-> hashpw(password, hashed_password.salt, build).hash = hashed_password]

\* PasswordHasher on a given build.  hash_password lets bcrypt's exception pass.
hash_password_on(build, plain_password, salt) == hashpw(plain_password, salt, build)

\* check_password encloses bcrypt.checkpw in try/except: an exception gives False.
check_password_on(build, plain_password, hashed_password) ==
    IF checkpw(plain_password, hashed_password, build).raised THEN FALSE
    ELSE checkpw(plain_password, hashed_password, build).match

\* PasswordHasher.hash_password and check_password where bcrypt raises nothing
\* for the length of a password.
hash_password(plain_password, salt) ==
    hash_password_on("truncate", plain_password, salt).hash

check_password(plain_password, hashed_password) ==
    check_password_on("truncate", plain_password, hashed_password)

validate_password(password) ==
    IF Len(password) < 8
    THEN [valid |-> FALSE, msg |-> MsgPwLength]
    ELSE IF ~ \E i \in DOMAIN password : password[i] \in UpperChars
    THEN [valid |-> FALSE, msg |-> MsgPwUpper]
    ELSE IF ~ \E i \in DOMAIN password : password[i] \in LowerChars
    THEN [valid |-> FALSE, msg |-> MsgPwLower]
    ELSE IF ~ \E i \in DOMAIN password : password[i] \in DigitChars
    THEN [valid |-> FALSE, msg |-> MsgPwDigit]
    ELSE [valid |-> TRUE, msg |-> MsgPwValid]

(***************************************************************************)
(* The users table.                                                        *)
(***************************************************************************)
UserNames(tbl) == {tbl[i].username : i \in DOMAIN tbl}

\* SELECT ... FROM users WHERE username = ?  (fetch_one: the first match or None)
fetch_user(tbl, username) ==
    IF \E i \in DOMAIN tbl : tbl[i].username = username
    THEN Some(tbl[CHOOSE i \in DOMAIN tbl :
                      /\ tbl[i].username = username
                      /\ \A j \in DOMAIN tbl : tbl[j].username = username => i <= j])
    ELSE None

user_exists(tbl, username) == fetch_user(tbl, username) # None

\* id PK of the users table: assigned by the store, one past the largest id.
NextUserId(tbl) ==
    IF tbl = << >> THEN 1
    ELSE 1 + (CHOOSE m \in {tbl[i].id : i \in DOMAIN tbl} :
                  \A i \in DOMAIN tbl : tbl[i].id <= m)

\* A users table without the UNIQUE constraint.
UsernameUnique_NoConstraint(tbl, username) == TRUE

\* username UNIQUE of the users table: may a row with this username be inserted?
UsernameUnique(tbl, username) == username \notin UserNames(tbl)

\* INSERT INTO users (username, password_hash, role) VALUES (?, ?, ?), committed.
\* fault: the store fails the statement.  ok = FALSE stands for the exception.
insert_user(tbl, username, password_hash, role, fault) ==
    IF fault \/ ~UsernameUnique(tbl, username)
    THEN [ok |-> FALSE, tbl |-> tbl]
    ELSE [ok |-> TRUE,
          tbl |-> Append(tbl, [id |-> NextUserId(tbl), username |-> username,
                               password_hash |-> password_hash, role |-> role])]

(***************************************************************************)
(* Auth service: AuthManager.register_user / login_user.                   *)
(***************************************************************************)
\* The result of one register call.  raised: an exception left the call.
\* wrote: the call issued its INSERT.
RegResult(ok, msg, raised, wrote, tbl) ==
    [ok |-> ok, msg |-> msg, raised |-> raised, wrote |-> wrote, tbl |-> tbl]

\* register_check with the existence check moved before the strength check.
register_check_ExistsFirst(tbl, username, password, existsFault) ==
    IF username = "" \/ password = << >>
    THEN [next |-> "return", msg |-> MsgRequired]
    ELSE IF Len(username) < 3
    THEN [next |-> "return", msg |-> MsgShortUser]
    ELSE IF existsFault
    THEN [next |-> "raise", msg |-> ""]
    ELSE IF user_exists(tbl, username)
    THEN [next |-> "return", msg |-> MsgExists]
    ELSE IF ~validate_password(password).valid
    THEN [next |-> "return", msg |-> validate_password(password).msg]
    ELSE [next |-> "pass", msg |-> ""]

\* register_check without the existence check: the insert is tried at once.
register_check_NoExists(tbl, username, password, existsFault) ==
    IF username = "" \/ password = << >>
    THEN [next |-> "return", msg |-> MsgRequired]
    ELSE IF Len(username) < 3
    THEN [next |-> "return", msg |-> MsgShortUser]
    ELSE IF ~validate_password(password).valid
    THEN [next |-> "return", msg |-> validate_password(password).msg]
    ELSE [next |-> "pass", msg |-> ""]

\* The checks before the try block.  existsFault: the store fails the SELECT of
\* user_exists, which no handler encloses.  "pass": go on to the insert.
register_check(tbl, username, password, existsFault) ==
    IF username = "" \/ password = << >>
    THEN [next |-> "return", msg |-> MsgRequired]
    ELSE IF Len(username) < 3
    THEN [next |-> "return", msg |-> MsgShortUser]
    ELSE IF ~validate_password(password).valid
    THEN [next |-> "return", msg |-> validate_password(password).msg]
    ELSE IF existsFault
    THEN [next |-> "raise", msg |-> ""]
    ELSE IF user_exists(tbl, username)
    THEN [next |-> "return", msg |-> MsgExists]
    ELSE [next |-> "pass", msg |-> ""]

\* The try block: hash, insert, report; any exception becomes a failure message.
register_insert(tbl, username, password, role, salt, insertFault) ==
    LET ins == insert_user(tbl, username, hash_password(password, salt), role, insertFault)
    IN  IF ins.ok
        THEN RegResult(TRUE, MsgRegistered, FALSE, TRUE, ins.tbl)
        ELSE RegResult(FALSE, MsgRegFailed, FALSE, TRUE, tbl)

\* register_user running its insert before it looks at the result of the checks.
register_user_InsertFirst(tbl, username, password, role, salt, existsFault, insertFault) ==
    LET chk == register_check(tbl, username, password, existsFault)
        res == register_insert(tbl, username, password, role, salt, insertFault)
    IN  IF chk.next = "return" THEN RegResult(FALSE, chk.msg, FALSE, TRUE, res.tbl)
        ELSE IF chk.next = "raise" THEN RegResult(FALSE, "", TRUE, TRUE, res.tbl)
        ELSE res

register_user(tbl, username, password, role, salt, existsFault, insertFault) ==
    LET chk == register_check(tbl, username, password, existsFault)
    IN  IF chk.next = "return" THEN RegResult(FALSE, chk.msg, FALSE, FALSE, tbl)
        ELSE IF chk.next = "raise" THEN RegResult(FALSE, "", TRUE, FALSE, tbl)
        ELSE register_insert(tbl, username, password, role, salt, insertFault)

\* User.get_password_hash: the password hash of a User, open to every holder
\* of the object.
get_password_hash(user) == user.password_hash

\* User.to_dict: the fields meant for the session.
to_dict(user) == [id |-> user.id, username |-> user.username, role |-> user.role]

\* User.verify_password delegates to the hasher.
verify_password(user, plain_password) == check_password(plain_password, user.password_hash)

\* AuthManager.login_user: the User object, or None for every kind of failure.
login_user(tbl, username, password, fault) ==
    IF username = "" \/ password = << >> THEN None
    ELSE IF fault THEN None
    ELSE IF fetch_user(tbl, username) = None THEN None
    ELSE IF verify_password(Get(fetch_user(tbl, username)), password)
    THEN fetch_user(tbl, username)
    ELSE None

(***************************************************************************)
(* The functional auth layer, app/auth.py: module-level functions that     *)
(* open a connection of their own to the same database file.               *)
(***************************************************************************)
app_validate_password(password) ==
    IF Len(password) < 8
    THEN [valid |-> FALSE, msg |-> MsgPwLength]
    ELSE IF ~ \E i \in DOMAIN password : password[i] \in UpperChars
    THEN [valid |-> FALSE, msg |-> MsgPwUpper]
    ELSE IF ~ \E i \in DOMAIN password : password[i] \in LowerChars
    THEN [valid |-> FALSE, msg |-> MsgPwLower]
    ELSE IF ~ \E i \in DOMAIN password : password[i] \in DigitChars
    THEN [valid |-> FALSE, msg |-> MsgPwDigit]
    ELSE [valid |-> TRUE, msg |-> MsgPwValid]

app_hash_password(password, salt) == hashpw(password, salt, "truncate").hash

\* bcrypt.checkpw inside try / bare except: an exception gives False.
app_verify_password(password, hashed_password) ==
    IF checkpw(password, hashed_password, "truncate").raised THEN FALSE
    ELSE checkpw(password, hashed_password, "truncate").match

\* SELECT 1 FROM users WHERE username = ?
app_user_exists(tbl, username) == \E i \in DOMAIN tbl : tbl[i].username = username

\* app.auth.register_user without the check of the username's length.
app_register_user_NoLengthCheck(tbl, username, password, role, salt, existsFault, insertFault) ==
    IF username = "" \/ password = << >>
    THEN RegResult(FALSE, MsgRequired, FALSE, FALSE, tbl)
    ELSE IF ~app_validate_password(password).valid
    THEN RegResult(FALSE, app_validate_password(password).msg, FALSE, FALSE, tbl)
    ELSE IF existsFault
    THEN RegResult(FALSE, "", TRUE, FALSE, tbl)
    ELSE IF app_user_exists(tbl, username)
    THEN RegResult(FALSE, MsgExists, FALSE, FALSE, tbl)
    ELSE LET ins == insert_user(tbl, username, app_hash_password(password, salt),
                                role, insertFault)
         IN  IF ins.ok THEN RegResult(TRUE, MsgRegistered, FALSE, TRUE, ins.tbl)
             ELSE RegResult(FALSE, MsgRegFailed, FALSE, TRUE, tbl)

\* app.auth.register_user: the checks in the order of the code, user_exists
\* outside the try block, then hash and INSERT inside it.
app_register_user(tbl, username, password, role, salt, existsFault, insertFault) ==
    IF username = "" \/ password = << >>
    THEN RegResult(FALSE, MsgRequired, FALSE, FALSE, tbl)
    ELSE IF Len(username) < 3
    THEN RegResult(FALSE, MsgShortUser, FALSE, FALSE, tbl)
    ELSE IF ~app_validate_password(password).valid
    THEN RegResult(FALSE, app_validate_password(password).msg, FALSE, FALSE, tbl)
    ELSE IF existsFault
    THEN RegResult(FALSE, "", TRUE, FALSE, tbl)
    ELSE IF app_user_exists(tbl, username)
    THEN RegResult(FALSE, MsgExists, FALSE, FALSE, tbl)
    ELSE LET ins == insert_user(tbl, username, app_hash_password(password, salt),
                                role, insertFault)
         IN  IF ins.ok THEN RegResult(TRUE, MsgRegistered, FALSE, TRUE, ins.tbl)
             ELSE RegResult(FALSE, MsgRegFailed, FALSE, TRUE, tbl)

\* authenticate_user reporting a wrong password as an unknown user.
authenticate_user_OneMessage(tbl, username, password, fault) ==
    IF username = "" \/ password = << >>
    THEN [success |-> FALSE, user_data |-> None, message |-> MsgRequired]
    ELSE IF fault
    THEN [success |-> FALSE, user_data |-> None, message |-> MsgAuthError]
    ELSE IF fetch_user(tbl, username) = None
    THEN [success |-> FALSE, user_data |-> None, message |-> MsgNotFound]
    ELSE IF app_verify_password(password, Get(fetch_user(tbl, username)).password_hash)
    THEN [success |-> TRUE,
          user_data |-> Some([id |-> Get(fetch_user(tbl, username)).id,
                              username |-> Get(fetch_user(tbl, username)).username,
                              role |-> Get(fetch_user(tbl, username)).role]),
          message |-> MsgLoginOk]
    ELSE [success |-> FALSE, user_data |-> None, message |-> MsgNotFound]

\* app.auth.authenticate_user: (success, user_data, message).
authenticate_user(tbl, username, password, fault) ==
    IF username = "" \/ password = << >>
    THEN [success |-> FALSE, user_data |-> None, message |-> MsgRequired]
    ELSE IF fault
    THEN [success |-> FALSE, user_data |-> None, message |-> MsgAuthError]
    ELSE IF fetch_user(tbl, username) = None
    THEN [success |-> FALSE, user_data |-> None, message |-> MsgNotFound]
    ELSE IF app_verify_password(password, Get(fetch_user(tbl, username)).password_hash)
    THEN [success |-> TRUE,
          user_data |-> Some([id |-> Get(fetch_user(tbl, username)).id,
                              username |-> Get(fetch_user(tbl, username)).username,
                              role |-> Get(fetch_user(tbl, username)).role]),
          message |-> MsgLoginOk]
    ELSE [success |-> FALSE, user_data |-> None, message |-> MsgIncorrect]

(***************************************************************************)
(* Domain record services.  A table is a set of rows; the column id stands *)
(* for incident_id, ticket_id and dataset_id.                              *)
(***************************************************************************)
Services == {"IncidentService", "TicketService", "DatasetService"}

\* datetime.now() in its string form: the moment of the call.
Now == "now"

Ids(tbl) == {row.id : row \in tbl}

\* SELECT MAX(id) ... : NULL on an empty table.
max_id(tbl) ==
    IF tbl = {} THEN None
    ELSE Some(CHOOSE m \in Ids(tbl) : \A i \in Ids(tbl) : i <= m)

\* Python's (x or default) on the MAX(id) column: NULL and 0 give the default.
OrDefault(opt, default) ==
    IF opt = None THEN default
    ELSE IF Get(opt) = 0 THEN default
    ELSE Get(opt)

\* A table whose id column carries no constraint.
PrimaryKeyFree_NoConstraint(tbl, id) == TRUE

\* The id column is the table's primary key: may a row with this id be inserted?
PrimaryKeyFree(tbl, id) == id \notin Ids(tbl)

\* INSERT INTO ... VALUES (...), committed; ok = FALSE stands for the exception.
insert_row(tbl, row) ==
    IF ~PrimaryKeyFree(tbl, row.id)
    THEN [ok |-> FALSE, tbl |-> tbl]
    ELSE [ok |-> TRUE, tbl |-> tbl \cup {row}]

\* An UPDATE whose rowcount counts only the rows it gave a different value.
update_row_ChangedOnly(tbl, id, col, value) ==
    [ok |-> \E row \in tbl : row.id = id /\ row[col] # value,
     tbl |-> {IF row.id = id THEN [row EXCEPT ![col] = value] ELSE row : row \in tbl}]

\* UPDATE ... SET col = value WHERE id = ?, with cursor.rowcount > 0.
update_row(tbl, id, col, value) ==
    [ok |-> \E row \in tbl : row.id = id,
     tbl |-> {IF row.id = id THEN [row EXCEPT ![col] = value] ELSE row : row \in tbl}]

\* A DELETE whose WHERE clause is missing.
delete_row_NoWhere(tbl, id) ==
    [ok |-> \E row \in tbl : row.id = id, tbl |-> {}]

\* DELETE FROM ... WHERE id = ?, with cursor.rowcount > 0.
delete_row(tbl, id) ==
    [ok |-> \E row \in tbl : row.id = id,
     tbl |-> {row \in tbl : row.id # id}]

\* SELECT ... WHERE id = ?  (fetch_one)
fetch_row(tbl, id) ==
    IF \E row \in tbl : row.id = id
    THEN Some(CHOOSE row \in tbl : row.id = id)
    ELSE None

\* The result of a create: the id returned, the table after it; raised: the
\* INSERT failed and its exception left the call.
Created(id, ins) == [id |-> id, raised |-> ~ins.ok, tbl |-> ins.tbl]

\* ---- IncidentService
\* An id allocation that starts incidents from 0.
next_incident_id_NoFloor(tbl) == OrDefault(max_id(tbl), 0) + 1

next_incident_id(tbl) == OrDefault(max_id(tbl), 1000) + 1

\* The row of create_incident's INSERT: reported_by is not among its columns.
incident_row(next_id, incident_type, severity, description, reported_by) ==
    [id |-> next_id, timestamp |-> Now, category |-> incident_type,
     severity |-> severity, status |-> "Open", description |-> description]

create_incident(tbl, incident_type, severity, description, reported_by) ==
    LET next_id == next_incident_id(tbl)
    IN  Created(next_id,
                insert_row(tbl, incident_row(next_id, incident_type, severity,
                                             description, reported_by)))

\* The SecurityIncident built from a row: reported_by keeps its default.
SecurityIncident(row) ==
    [id |-> row.id, incident_type |-> row.category, severity |-> row.severity,
     status |-> row.status, description |-> row.description,
     timestamp |-> row.timestamp, reported_by |-> None]

\* ORDER BY id DESC: the rows of a table, the largest id first.
RECURSIVE order_by_id_desc(_)
order_by_id_desc(tbl) ==
    IF tbl = {} THEN << >>
    ELSE LET top == CHOOSE r \in tbl : \A q \in tbl : q.id <= r.id
         IN  <<top>> \o order_by_id_desc(tbl \ {top})

get_all_incidents(tbl) ==
    [i \in DOMAIN order_by_id_desc(tbl) |-> SecurityIncident(order_by_id_desc(tbl)[i])]

\* WHERE column = ?: the rows whose column holds the value; NULL equals nothing.
where(tbl, column, value) == {row \in tbl : row[column] = value}

\* A filter that lets every row through.
get_incidents_by_severity_Unfiltered(tbl, severity) == get_all_incidents(tbl)

get_incidents_by_severity(tbl, severity) ==
    get_all_incidents(where(tbl, "severity", severity))

get_incidents_by_status(tbl, status) ==
    get_all_incidents(where(tbl, "status", status))

get_incident_by_id(tbl, incident_id) ==
    IF fetch_row(tbl, incident_id) = None THEN None
    ELSE Some(SecurityIncident(Get(fetch_row(tbl, incident_id))))

\* An update that reports success whatever the UPDATE matched.
update_incident_status_ReportsTrue(tbl, incident_id, new_status) ==
    [ok |-> TRUE, tbl |-> update_row(tbl, incident_id, "status", new_status).tbl]

update_incident_status(tbl, incident_id, new_status) ==
    update_row(tbl, incident_id, "status", new_status)

delete_incident(tbl, incident_id) == delete_row(tbl, incident_id)

\* ---- TicketService
next_ticket_id(tbl) == OrDefault(max_id(tbl), 2000) + 1

\* The row of create_ticket's INSERT: resolution_time_hours is left NULL.
ticket_row(next_id, priority, description, assigned_to) ==
    [id |-> next_id, priority |-> priority, description |-> description,
     status |-> "Open", assigned_to |-> assigned_to, created_at |-> Now,
     resolution_time_hours |-> None]

create_ticket(tbl, priority, description, assigned_to) ==
    LET next_id == next_ticket_id(tbl)
    IN  Created(next_id,
                insert_row(tbl, ticket_row(next_id, priority, description, assigned_to)))

ITTicket(row) ==
    [id |-> row.id, priority |-> row.priority, description |-> row.description,
     status |-> row.status, assigned_to |-> row.assigned_to,
     created_at |-> row.created_at,
     resolution_time_hours |-> row.resolution_time_hours]

\* A listing in the order ORDER BY ticket_id ASC would give.
get_all_tickets_Ascending(tbl) ==
    [i \in DOMAIN order_by_id_desc(tbl) |->
        ITTicket(order_by_id_desc(tbl)[Len(order_by_id_desc(tbl)) + 1 - i])]

get_all_tickets(tbl) ==
    [i \in DOMAIN order_by_id_desc(tbl) |-> ITTicket(order_by_id_desc(tbl)[i])]

get_tickets_by_status(tbl, status) ==
    get_all_tickets(where(tbl, "status", status))

get_tickets_by_priority(tbl, priority) ==
    get_all_tickets(where(tbl, "priority", priority))

get_tickets_by_assignee(tbl, assigned_to) ==
    get_all_tickets(where(tbl, "assigned_to", Some(assigned_to)))

get_ticket_by_id(tbl, ticket_id) ==
    IF fetch_row(tbl, ticket_id) = None THEN None
    ELSE Some(ITTicket(Get(fetch_row(tbl, ticket_id))))

update_ticket_status(tbl, ticket_id, new_status) ==
    update_row(tbl, ticket_id, "status", new_status)

assign_ticket(tbl, ticket_id, assigned_to) ==
    update_row(tbl, ticket_id, "assigned_to", Some(assigned_to))

delete_ticket(tbl, ticket_id) == delete_row(tbl, ticket_id)

\* ---- DatasetService
next_dataset_id(tbl) == OrDefault(max_id(tbl), 0) + 1

dataset_row(next_id, name, rows, columns, uploaded_by) ==
    [id |-> next_id, name |-> name, rows |-> rows, columns |-> columns,
     uploaded_by |-> uploaded_by, upload_date |-> Now]

create_dataset(tbl, name, rows, columns, uploaded_by) ==
    LET next_id == next_dataset_id(tbl)
    IN  Created(next_id,
                insert_row(tbl, dataset_row(next_id, name, rows, columns, uploaded_by)))

Dataset(row) ==
    [id |-> row.id, name |-> row.name, rows |-> row.rows, columns |-> row.columns,
     uploaded_by |-> row.uploaded_by, upload_date |-> row.upload_date]

get_all_datasets(tbl) ==
    [i \in DOMAIN order_by_id_desc(tbl) |-> Dataset(order_by_id_desc(tbl)[i])]

get_datasets_by_uploader(tbl, uploaded_by) ==
    get_all_datasets(where(tbl, "uploaded_by", uploaded_by))

get_dataset_by_id(tbl, dataset_id) ==
    IF fetch_row(tbl, dataset_id) = None THEN None
    ELSE Some(Dataset(Get(fetch_row(tbl, dataset_id))))

delete_dataset(tbl, dataset_id) == delete_row(tbl, dataset_id)

\* ---- Aggregates
\* SELECT col, COUNT(*) ... GROUP BY col, as the dict built from its rows: a key
\* for every value some row has, and no other key.
count_by(tbl, col) ==
    [k \in {row[col] : row \in tbl} |-> Cardinality({row \in tbl : row[col] = k})]

\* SUM(col) over a set of rows whose column holds integers.
RECURSIVE sum_of(_, _)
sum_of(tbl, col) ==
    IF tbl = {} THEN 0
    ELSE LET r == CHOOSE r \in tbl : TRUE
         IN  r[col] + sum_of(tbl \ {r}, col)

\* AVG(resolution_time_hours) ... WHERE resolution_time_hours IS NOT NULL, in
\* hundredths of an hour: NULL when no row is left.
avg_resolution(tbl) ==
    LET timed == {[id |-> row.id, hours |-> Get(row.resolution_time_hours)] :
                     row \in {r \in tbl : r.resolution_time_hours # None}}
    IN  IF timed = {} THEN None
        ELSE Some((sum_of(timed, "hours") * 100) \div Cardinality(timed))

\* Statistics whose by_status leaves the closed tickets out.
get_ticket_statistics_OpenOnly(tbl) ==
    [by_status |-> count_by({row \in tbl : row.status # "Closed"}, "status"),
     by_priority |-> count_by(tbl, "priority"),
     avg_resolution_hours |-> OrDefault(avg_resolution(tbl), 0)]

get_ticket_statistics(tbl) ==
    [by_status |-> count_by(tbl, "status"),
     by_priority |-> count_by(tbl, "priority"),
     avg_resolution_hours |-> OrDefault(avg_resolution(tbl), 0)]

\* dict.get(key, default), as the IT Operations page reads the counts.
dict_get(d, key, default) == IF key \in DOMAIN d THEN d[key] ELSE default

\* COUNT(*), SUM(rows), AVG(columns) of datasets_metadata; SUM and AVG are NULL
\* on an empty table.  avg_columns is in hundredths.
get_dataset_statistics(tbl) ==
    [dataset_count |-> Cardinality(tbl),
     total_rows |-> OrDefault(IF tbl = {} THEN None ELSE Some(sum_of(tbl, "rows")), 0),
     avg_columns |-> OrDefault(IF tbl = {} THEN None
                               ELSE Some((sum_of(tbl, "columns") * 100)
                                         \div Cardinality(tbl)), 0)]

\* The record of the last finished call of a record service.  id: the id
\* passed, or returned by create; prior: the largest id create had returned
\* before this call, 0 when it had returned none.
Largest(a, b) == IF a >= b THEN a ELSE b

Rec(svc, op, id, ok, args, prior) ==
    [svc |-> svc, op |-> op, id |-> id, ok |-> ok, args |-> args, prior |-> prior]

\* That record with what the call found and gave: before, the service's table
\* when the call began; result, what a query returned; made and gone, the
\* creates and deletes that have succeeded so far, this call included.
Seen(r, before, result, made, gone) ==
    r @@ [before |-> before, result |-> result,
          made |-> made + (IF r.op = "create" /\ r.ok THEN 1 ELSE 0),
          gone |-> gone + (IF r.op = "delete" /\ r.ok THEN 1 ELSE 0)]

(***************************************************************************)
(* Session state and the pages' gate.                                      *)
(***************************************************************************)
\* initialize_session_state: the unauthenticated defaults.
SessionDefaults == [logged_in |-> FALSE, username |-> "", role |-> "", user_id |-> None]

\* A login handler that sets the flag and the name but not the id and the role.
SessionOf_NameOnly(user) ==
    [logged_in |-> TRUE, username |-> user.username, role |-> "", user_id |-> None]

\* Home.py, login handler on success: the session takes the User's fields.
SessionOf(user) ==
    [logged_in |-> TRUE, username |-> user.username, role |-> user.role,
     user_id |-> Some(user.id)]

\* A page without the authentication check.
AuthCheck_Missing(sess) == TRUE

\* The authentication check at the top of every page: TRUE lets the run go on,
\* FALSE ends it at st.stop().
AuthCheck(sess) == sess.logged_in

\* The "Log out" button of the dashboard's sidebar.
DashboardLogout(sess) ==
    [sess EXCEPT !.logged_in = FALSE, !.username = "", !.role = ""]

\* app.auth.logout.
logout(sess) ==
    [sess EXCEPT !.logged_in = FALSE, !.username = "", !.role = "", !.user_id = None]

Pages == {"Dashboard", "Cybersecurity", "DataScience", "ITOperations"}

\* The record service a page creates after its authentication check.
ServiceOf(page) ==
    CASE page = "Dashboard" -> "IncidentService"
      [] page = "Cybersecurity" -> "IncidentService"
      [] page = "DataScience" -> "DatasetService"
      [] page = "ITOperations" -> "TicketService"

\* One run of a page script: the service calls it makes, each with the value the
\* session's flag has when the call is made.
PageCalls(page, sess) ==
    IF AuthCheck(sess)
    THEN {[service |-> ServiceOf(page), logged_in |-> sess.logged_in]}
    ELSE {}

(***************************************************************************)
(* DatabaseManager: the connection of the record store.  A manager is its  *)
(* _connection (None, or the ordinal of the connection it holds), the      *)
(* number of connections it has opened, the set of those still open, and,  *)
(* as history, its last call: op, raised, and _connection and opened as    *)
(* they were before the call.                                              *)
(***************************************************************************)
Managers == {"m1", "m2"}

\* What can go wrong in a store call: sqlite3.connect raises, or the statement.
DbFaults == {"none", "connect", "statement"}

\* __init__: no connection.
DatabaseManager ==
    [connection |-> None, opened |-> 0, live |-> {},
     op |-> "init", raised |-> FALSE, was |-> None, had |-> 0]

Called(m, op, raised, before) ==
    [m EXCEPT !.op = op, !.raised = raised, !.was = before.connection,
              !.had = before.opened]

\* connect without its test of _connection.
connect_Unguarded(m, fault) ==
    IF fault = "connect"
    THEN Called(m, "connect", TRUE, m)
    ELSE Called([m EXCEPT !.connection = Some(m.opened + 1),
                          !.opened = m.opened + 1,
                          !.live = m.live \cup {m.opened + 1}],
                "connect", FALSE, m)

connect(m, fault) ==
    IF m.connection = None
    THEN IF fault = "connect"
         THEN Called(m, "connect", TRUE, m)
         ELSE Called([m EXCEPT !.connection = Some(m.opened + 1),
                               !.opened = m.opened + 1,
                               !.live = m.live \cup {m.opened + 1}],
                     "connect", FALSE, m)
    ELSE Called(m, "connect", FALSE, m)

close(m) ==
    IF m.connection # None
    THEN Called([m EXCEPT !.connection = None,
                          !.live = m.live \ {Get(m.connection)}],
                "close", FALSE, m)
    ELSE Called(m, "close", FALSE, m)

\* The store side of a query method: connect when there is no connection, then
\* run the statement on the connection.
query(m, op, fault) ==
    LET c == IF m.connection = None THEN connect(m, fault) ELSE m
    IN  IF m.connection = None /\ c.raised
        THEN Called(c, op, TRUE, m)
        ELSE Called(c, op, fault = "statement", m)

execute_query(m, fault) == query(m, "execute_query", fault)
fetch_one(m, fault) == query(m, "fetch_one", fault)
fetch_all(m, fault) == query(m, "fetch_all", fault)

\* __enter__ and __exit__.
enter(m, fault) == Called(connect(m, fault), "enter", connect(m, fault).raised, m)
exit(m) == Called(close(m), "exit", FALSE, m)

(***************************************************************************)
(* The record of the last finished run.                                    *)
(***************************************************************************)
\* A finished page run: the page, the event it handled, how the script ended
\* (end: its last line; stop: st.stop(); rerun: st.rerun(); switch:
\* st.switch_page(); fault: an exception), the page's DatabaseManager as the
\* run left it, and what the handler did and reported.
Run(page, event, how, manager) ==
    [page |-> page, event |-> event, exit |-> how, db |-> manager,
     id |-> 0, args |-> << >>, before |-> {}, report |-> "",
     success_status |-> FALSE, success_assign |-> FALSE, mid |-> "none"]

Last(op, username, password, role, ok, msg, raised, wrote, before, page, calls) ==
    [op |-> op, username |-> username, password |-> password, role |-> role,
     ok |-> ok, msg |-> msg, raised |-> raised, wrote |-> wrote,
     before |-> before, page |-> page, calls |-> calls, returned |-> None]

Init ==
    /\ users = << >>
    /\ session = SessionDefaults
    /\ last = Last("init", "", << >>, "", TRUE, "", FALSE, FALSE, << >>, "", {})
    /\ pend = [c \in Callers |-> None]
    /\ incidents = {}
    /\ tickets = {}
    /\ datasets = {}
    /\ issued = [svc \in Services |-> 0]
    /\ rec = Seen(Rec("", "init", 0, TRUE, << >>, 0), {}, << >>, 0, 0)
    /\ cpend = [c \in Callers |-> None]
    /\ db = [m \in Managers |-> DatabaseManager]
    /\ run = Run("", "init", "end", DatabaseManager)

(***************************************************************************)
(* Actions of the auth layer, one per handler.                             *)
(***************************************************************************)
\* A call of AuthManager.register_user.
Register(u, p, r, salt, fault) ==
    LET res == register_user(users, u, p, r, salt, fault = "read", fault = "write")
    IN  /\ Len(res.tbl) <= MaxUsers
        /\ users' = res.tbl
        /\ last' = Last("register", u, p, r, res.ok, res.msg, res.raised,
                        res.wrote, users, "", {})
        /\ UNCHANGED <<session, pend>>
        /\ UNCHANGED <<recVars, storeVars>>

\* Home.py, the Login button.
Login(u, p, fault) ==
    IF u = "" \/ p = << >>
    THEN /\ last' = Last("login", u, p, "", FALSE, MsgEnterBoth, FALSE, FALSE,
                         users, "Home", {})
         /\ UNCHANGED <<users, session, pend>>
         /\ UNCHANGED <<recVars, storeVars>>
    ELSE LET user == login_user(users, u, p, fault = "read")
         IN  /\ session' = IF user # None THEN SessionOf(Get(user)) ELSE session
             /\ last' = [Last("login", u, p, "", user # None,
                              IF user # None THEN MsgWelcome ELSE MsgInvalidLogin,
                              FALSE, FALSE, users, "Home", {})
                             EXCEPT !.returned = user]
             /\ UNCHANGED <<users, pend>>
             /\ UNCHANGED <<recVars, storeVars>>

\* A call of app.auth.authenticate_user.
Authenticate(u, p, fault) ==
    LET res == authenticate_user(users, u, p, fault = "read")
    IN  /\ last' = [Last("authenticate", u, p, "", res.success, res.message,
                         FALSE, FALSE, users, "", {})
                        EXCEPT !.returned = res.user_data]
        /\ UNCHANGED <<users, session, pend>>
        /\ UNCHANGED <<recVars, storeVars>>

\* One run of a page; pressLogout: the dashboard's "Log out" button was pressed.
PageRun(page, pressLogout) ==
    /\ pressLogout => page = "Dashboard"
    /\ session' = IF AuthCheck(session) /\ pressLogout
                  THEN DashboardLogout(session) ELSE session
    /\ last' = Last(IF AuthCheck(session) /\ pressLogout THEN "logout" ELSE "page",
                    "", << >>, "", AuthCheck(session), "", FALSE, FALSE, users,
                    page, PageCalls(page, session))
    /\ UNCHANGED <<users, pend>>
    /\ UNCHANGED <<recVars, storeVars>>

\* A call of app.auth.logout.
AppLogout ==
    /\ session' = logout(session)
    /\ last' = Last("logout", "", << >>, "", TRUE, "", FALSE, FALSE, users, "", {})
    /\ UNCHANGED <<users, pend>>
    /\ UNCHANGED <<recVars, storeVars>>

\* A register call up to the return of user_exists.
RegisterCheck(c, u, p, r) ==
    /\ pend[c] = None
    /\ LET chk == register_check(users, u, p, FALSE)
       IN  IF chk.next = "pass"
           THEN /\ pend' = [pend EXCEPT ![c] = Some([username |-> u, password |-> p,
                                                      role |-> r])]
                /\ UNCHANGED last
           ELSE /\ last' = Last("register", u, p, r, FALSE, chk.msg, FALSE, FALSE,
                                users, "", {})
                /\ UNCHANGED pend
    /\ UNCHANGED <<users, session>>
    /\ UNCHANGED <<recVars, storeVars>>

\* The rest of that register call: the try block.
RegisterInsert(c, salt) ==
    /\ pend[c] # None
    /\ LET a == Get(pend[c])
           res == register_insert(users, a.username, a.password, a.role, salt, FALSE)
       IN  /\ Len(res.tbl) <= MaxUsers
           /\ users' = res.tbl
           /\ last' = Last("register", a.username, a.password, a.role, res.ok,
                           res.msg, res.raised, res.wrote, users, "", {})
    /\ pend' = [pend EXCEPT ![c] = None]
    /\ UNCHANGED session
    /\ UNCHANGED <<recVars, storeVars>>

(***************************************************************************)
(* Actions of the record services, one per method.                         *)
(***************************************************************************)
TotalRows == Cardinality(incidents) + Cardinality(tickets) + Cardinality(datasets)

\* The floor the ids of a service start above.
FloorOfService(svc) ==
    CASE svc = "IncidentService" -> 1000
      [] svc = "TicketService" -> 2000
      [] svc = "DatasetService" -> 0

\* The bound on a create: room for one more row, and an id within range.
CanCreate(id, floor) ==
    TotalRows < MaxRows /\ id <= floor + MaxRows /\ rec.made < MaxCreates

CreateIncident(incident_type, severity, description, reported_by) ==
    LET res == create_incident(incidents, incident_type, severity, description,
                               reported_by)
    IN  /\ CanCreate(res.id, 1000)
        /\ incidents' = res.tbl
        /\ issued' = [issued EXCEPT !["IncidentService"] = Largest(@, res.id)]
        /\ rec' = Seen(Rec("IncidentService", "create", res.id, ~res.raised,
                      [incident_type |-> incident_type, severity |-> severity,
                       description |-> description, reported_by |-> reported_by],
                      issued["IncidentService"]),
                       incidents, << >>, rec.made, rec.gone)
        /\ UNCHANGED <<tickets, datasets>>
        /\ UNCHANGED <<authVars, storeVars>>

UpdateIncidentStatus(incident_id, new_status) ==
    LET res == update_incident_status(incidents, incident_id, new_status)
    IN  /\ incidents' = res.tbl
        /\ rec' = Seen(Rec("IncidentService", "update_status", incident_id, res.ok,
                      [new_status |-> new_status], issued["IncidentService"]),
                       incidents, << >>, rec.made, rec.gone)
        /\ UNCHANGED <<tickets, datasets, issued>>
        /\ UNCHANGED <<authVars, storeVars>>

DeleteIncident(incident_id) ==
    LET res == delete_incident(incidents, incident_id)
    IN  /\ incidents' = res.tbl
        /\ rec' = Seen(Rec("IncidentService", "delete", incident_id, res.ok, << >>,
                      issued["IncidentService"]),
                       incidents, << >>, rec.made, rec.gone)
        /\ UNCHANGED <<tickets, datasets, issued>>
        /\ UNCHANGED <<authVars, storeVars>>

CreateTicket(priority, description, assigned_to) ==
    LET res == create_ticket(tickets, priority, description, assigned_to)
    IN  /\ CanCreate(res.id, 2000)
        /\ tickets' = res.tbl
        /\ issued' = [issued EXCEPT !["TicketService"] = Largest(@, res.id)]
        /\ rec' = Seen(Rec("TicketService", "create", res.id, ~res.raised,
                      [priority |-> priority, description |-> description,
                       assigned_to |-> assigned_to],
                      issued["TicketService"]),
                       tickets, << >>, rec.made, rec.gone)
        /\ UNCHANGED <<incidents, datasets>>
        /\ UNCHANGED <<authVars, storeVars>>

UpdateTicketStatus(ticket_id, new_status) ==
    LET res == update_ticket_status(tickets, ticket_id, new_status)
    IN  /\ tickets' = res.tbl
        /\ rec' = Seen(Rec("TicketService", "update_status", ticket_id, res.ok,
                      [new_status |-> new_status], issued["TicketService"]),
                       tickets, << >>, rec.made, rec.gone)
        /\ UNCHANGED <<incidents, datasets, issued>>
        /\ UNCHANGED <<authVars, storeVars>>

AssignTicket(ticket_id, assigned_to) ==
    LET res == assign_ticket(tickets, ticket_id, assigned_to)
    IN  /\ tickets' = res.tbl
        /\ rec' = Seen(Rec("TicketService", "assign", ticket_id, res.ok,
                      [assigned_to |-> assigned_to], issued["TicketService"]),
                       tickets, << >>, rec.made, rec.gone)
        /\ UNCHANGED <<incidents, datasets, issued>>
        /\ UNCHANGED <<authVars, storeVars>>

DeleteTicket(ticket_id) ==
    LET res == delete_ticket(tickets, ticket_id)
    IN  /\ tickets' = res.tbl
        /\ rec' = Seen(Rec("TicketService", "delete", ticket_id, res.ok, << >>,
                      issued["TicketService"]),
                       tickets, << >>, rec.made, rec.gone)
        /\ UNCHANGED <<incidents, datasets, issued>>
        /\ UNCHANGED <<authVars, storeVars>>

CreateDataset(name, rows, columns, uploaded_by) ==
    LET res == create_dataset(datasets, name, rows, columns, uploaded_by)
    IN  /\ CanCreate(res.id, 0)
        /\ datasets' = res.tbl
        /\ issued' = [issued EXCEPT !["DatasetService"] = Largest(@, res.id)]
        /\ rec' = Seen(Rec("DatasetService", "create", res.id, ~res.raised,
                      [name |-> name, rows |-> rows, columns |-> columns,
                       uploaded_by |-> uploaded_by],
                      issued["DatasetService"]),
                       datasets, << >>, rec.made, rec.gone)
        /\ UNCHANGED <<incidents, tickets>>
        /\ UNCHANGED <<authVars, storeVars>>

DeleteDataset(dataset_id) ==
    LET res == delete_dataset(datasets, dataset_id)
    IN  /\ datasets' = res.tbl
        /\ rec' = Seen(Rec("DatasetService", "delete", dataset_id, res.ok, << >>,
                      issued["DatasetService"]),
                       datasets, << >>, rec.made, rec.gone)
        /\ UNCHANGED <<incidents, tickets, issued>>
        /\ UNCHANGED <<authVars, storeVars>>

\* A query of a record service: the tables stay as they are.
Query(svc, op, tbl, result) ==
    /\ rec' = Seen(Rec(svc, op, 0, TRUE, << >>, issued[svc]), tbl, result,
                   rec.made, rec.gone)
    /\ UNCHANGED <<incidents, tickets, datasets, issued>>
    /\ UNCHANGED <<authVars, storeVars>>

GetAllIncidents ==
    Query("IncidentService", "get_all", incidents, get_all_incidents(incidents))

GetAllTickets ==
    Query("TicketService", "get_all", tickets, get_all_tickets(tickets))

GetAllDatasets ==
    Query("DatasetService", "get_all", datasets, get_all_datasets(datasets))

\* A filtered listing of a record service: the tables stay as they are.
QueryBy(svc, column, value, tbl, result) ==
    /\ rec' = Seen(Rec(svc, "get_by", 0, TRUE, [column |-> column, value |-> value],
                       issued[svc]), tbl, result, rec.made, rec.gone)
    /\ UNCHANGED <<incidents, tickets, datasets, issued>>
    /\ UNCHANGED <<authVars, storeVars>>

GetIncidentsBySeverity(severity) ==
    QueryBy("IncidentService", "severity", severity, incidents,
            get_incidents_by_severity(incidents, severity))

GetIncidentsByStatus(status) ==
    QueryBy("IncidentService", "status", status, incidents,
            get_incidents_by_status(incidents, status))

GetTicketsByStatus(status) ==
    QueryBy("TicketService", "status", status, tickets,
            get_tickets_by_status(tickets, status))

GetTicketsByPriority(priority) ==
    QueryBy("TicketService", "priority", priority, tickets,
            get_tickets_by_priority(tickets, priority))

GetTicketsByAssignee(assigned_to) ==
    QueryBy("TicketService", "assigned_to", assigned_to, tickets,
            get_tickets_by_assignee(tickets, assigned_to))

GetDatasetsByUploader(uploaded_by) ==
    QueryBy("DatasetService", "uploaded_by", uploaded_by, datasets,
            get_datasets_by_uploader(datasets, uploaded_by))

GetTicketStatistics ==
    Query("TicketService", "statistics", tickets, get_ticket_statistics(tickets))

GetDatasetStatistics ==
    Query("DatasetService", "statistics", datasets, get_dataset_statistics(datasets))

\* The values the schema's columns are meant to hold.
SeverityLevels == {"Low", "Medium", "High", "Critical"}
IncidentStatuses == {"Open", "In Progress", "Resolved", "Closed"}
TicketStatuses == IncidentStatuses \cup {"Waiting for User"}

\* The inputs the record services are driven with: a str parameter takes any
\* string, so each set holds a value from outside the column's enumeration.
Severities == {"High", "Low", "Urgent"}
Statuses == {"Open", "Closed", "Escalated"}
Reporters == {None, Some("alice")}
Assignees == {None, Some("IT_Support_A")}
RowCounts == {0, 5}
\* The ids a caller passes: those create can have returned, and one beyond.
IdsOf(floor) == (floor + 1) .. (floor + MaxRows + 1)

\* The services share no table and no state: a behaviour drives one of them.
Drives(svc) == rec.svc \in {"", svc}

NextRec ==
    \/ \E sev \in Severities, rb \in Reporters :
          Drives("IncidentService") /\ CreateIncident("Phishing", sev, "d1", rb)
    \/ \E id \in IdsOf(1000), st \in Statuses :
          Drives("IncidentService") /\ UpdateIncidentStatus(id, st)
    \/ \E id \in IdsOf(1000) :
          Drives("IncidentService") /\ DeleteIncident(id)
    \/ \E pr \in Severities, a \in Assignees :
          Drives("TicketService") /\ CreateTicket(pr, "d2", a)
    \/ \E id \in IdsOf(2000), st \in Statuses :
          Drives("TicketService") /\ UpdateTicketStatus(id, st)
    \/ \E id \in IdsOf(2000) :
          Drives("TicketService") /\ AssignTicket(id, "IT_Support_A")
    \/ \E id \in IdsOf(2000) :
          Drives("TicketService") /\ DeleteTicket(id)
    \/ \E n \in RowCounts :
          Drives("DatasetService") /\ CreateDataset("sales", n, 3, "alice")
    \/ \E id \in IdsOf(0) :
          Drives("DatasetService") /\ DeleteDataset(id)
    \/ Drives("IncidentService") /\ GetAllIncidents
    \/ Drives("TicketService") /\ GetAllTickets
    \/ Drives("DatasetService") /\ GetAllDatasets
    \/ Drives("TicketService") /\ GetTicketStatistics
    \/ Drives("DatasetService") /\ GetDatasetStatistics

SpecRec == Init /\ [][NextRec]_vars

\* The filtered listings of the record services, over tables that creates and
\* updates fill with rows that differ in the filtered columns.
NextFilter ==
    \/ \E sev \in {"High", "Low"} :
          Drives("IncidentService") /\ CreateIncident("Phishing", sev, "d1", None)
    \/ \E id \in IdsOf(1000) :
          Drives("IncidentService") /\ UpdateIncidentStatus(id, "Closed")
    \/ \E pr \in {"High", "Low"}, a \in Assignees :
          Drives("TicketService") /\ CreateTicket(pr, "d2", a)
    \/ \E id \in IdsOf(2000) :
          Drives("TicketService") /\ UpdateTicketStatus(id, "Closed")
    \/ \E ub \in {"alice", "bob"} :
          Drives("DatasetService") /\ CreateDataset("sales", 5, 3, ub)
    \/ \E sev \in Severities :
          Drives("IncidentService") /\ GetIncidentsBySeverity(sev)
    \/ \E st \in Statuses :
          Drives("IncidentService") /\ GetIncidentsByStatus(st)
    \/ \E st \in Statuses :
          Drives("TicketService") /\ GetTicketsByStatus(st)
    \/ \E pr \in Severities :
          Drives("TicketService") /\ GetTicketsByPriority(pr)
    \/ \E a \in {"IT_Support_A", "IT_Support_B"} :
          Drives("TicketService") /\ GetTicketsByAssignee(a)
    \/ \E ub \in {"alice", "bob"} :
          Drives("DatasetService") /\ GetDatasetsByUploader(ub)

SpecFilter == Init /\ [][NextFilter]_vars

\* The three record services and the auth service over one store: rows of
\* several tables exist side by side while one of them is written.
NextFrame ==
    \/ Register("alice", PwGoodPass1, "user", "s1", "none")
    \/ CreateIncident("Phishing", "High", "d1", None)
    \/ \E id \in IdsOf(1000) : UpdateIncidentStatus(id, "Closed")
    \/ \E id \in IdsOf(1000) : DeleteIncident(id)
    \/ CreateTicket("High", "d2", None)
    \/ \E id \in IdsOf(2000) : UpdateTicketStatus(id, "Closed")
    \/ \E id \in IdsOf(2000) : AssignTicket(id, "IT_Support_A")
    \/ \E id \in IdsOf(2000) : DeleteTicket(id)
    \/ CreateDataset("sales", 5, 3, "alice")
    \/ \E id \in IdsOf(0) : DeleteDataset(id)

SpecFrame == Init /\ [][NextFrame]_vars

(***************************************************************************)
(* Two callers of create at once: each call is its MAX(id) read, then its  *)
(* INSERT, and the store calls of the two interleave.                      *)
(***************************************************************************)
\* A create up to the return of its MAX(id) query: the id and the row to insert.
CreateRead(c, svc, next_id, row, args) ==
    /\ cpend[c] = None
    /\ TotalRows < MaxRows
    /\ next_id <= FloorOfService(svc) + MaxRows
    /\ cpend' = [cpend EXCEPT ![c] = Some([svc |-> svc, id |-> next_id, row |-> row,
                                           args |-> args])]
    /\ UNCHANGED <<db, run>>
    /\ UNCHANGED <<authVars, recVars>>

CreateIncidentRead(c, incident_type, severity, description, reported_by) ==
    CreateRead(c, "IncidentService", next_incident_id(incidents),
               incident_row(next_incident_id(incidents), incident_type, severity,
                            description, reported_by),
               [incident_type |-> incident_type, severity |-> severity,
                description |-> description, reported_by |-> reported_by])

CreateTicketRead(c, priority, description, assigned_to) ==
    CreateRead(c, "TicketService", next_ticket_id(tickets),
               ticket_row(next_ticket_id(tickets), priority, description, assigned_to),
               [priority |-> priority, description |-> description,
                assigned_to |-> assigned_to])

CreateDatasetRead(c, name, rows, columns, uploaded_by) ==
    CreateRead(c, "DatasetService", next_dataset_id(datasets),
               dataset_row(next_dataset_id(datasets), name, rows, columns, uploaded_by),
               [name |-> name, rows |-> rows, columns |-> columns,
                uploaded_by |-> uploaded_by])

\* The rest of that create: the INSERT and the return of the id.
CreateInsert(c) ==
    /\ cpend[c] # None
    /\ LET p == Get(cpend[c])
           tbl == CASE p.svc = "IncidentService" -> incidents
                    [] p.svc = "TicketService" -> tickets
                    [] p.svc = "DatasetService" -> datasets
           res == Created(p.id, insert_row(tbl, p.row))
       IN  /\ Cardinality(res.tbl) <= MaxRows
           /\ incidents' = IF p.svc = "IncidentService" THEN res.tbl ELSE incidents
           /\ tickets' = IF p.svc = "TicketService" THEN res.tbl ELSE tickets
           /\ datasets' = IF p.svc = "DatasetService" THEN res.tbl ELSE datasets
           /\ issued' = [issued EXCEPT ![p.svc] = Largest(@, p.id)]
           /\ rec' = Seen(Rec(p.svc, "create", p.id, ~res.raised, p.args,
                              issued[p.svc]),
                          tbl, << >>, 0, 0)
    /\ cpend' = [cpend EXCEPT ![c] = None]
    /\ UNCHANGED <<db, run>>
    /\ UNCHANGED authVars

NextCreateRace ==
    \/ \E c \in Callers, sev \in Severities :
          CreateIncidentRead(c, "Phishing", sev, "d1", Some("alice"))
    \/ \E c \in Callers, pr \in Severities, a \in Assignees :
          CreateTicketRead(c, pr, "d2", a)
    \/ \E c \in Callers, n \in RowCounts :
          CreateDatasetRead(c, "sales", n, 3, "alice")
    \/ \E c \in Callers : CreateInsert(c)

SpecCreateRace == Init /\ [][NextCreateRace]_vars

(***************************************************************************)
(* The calls of DatabaseManager, on each of two managers.                  *)
(***************************************************************************)
\* A call on manager m that leaves it as the manager `after`.
DbCall(m, after) ==
    /\ after.opened <= MaxConnects
    /\ db' = [db EXCEPT ![m] = after]
    /\ UNCHANGED <<cpend, run>>
    /\ UNCHANGED <<authVars, recVars>>

DbConnect(m, fault) == DbCall(m, connect(db[m], fault))
DbClose(m) == DbCall(m, close(db[m]))
DbExecuteQuery(m, fault) == DbCall(m, execute_query(db[m], fault))
DbFetchOne(m, fault) == DbCall(m, fetch_one(db[m], fault))
DbFetchAll(m, fault) == DbCall(m, fetch_all(db[m], fault))
DbEnter(m, fault) == DbCall(m, enter(db[m], fault))
DbExit(m) == DbCall(m, exit(db[m]))

NextDb ==
    \/ \E m \in Managers, fault \in {"none", "connect"} : DbConnect(m, fault)
    \/ \E m \in Managers : DbClose(m)
    \/ \E m \in Managers, fault \in DbFaults : DbExecuteQuery(m, fault)
    \/ \E m \in Managers, fault \in DbFaults : DbFetchOne(m, fault)
    \/ \E m \in Managers, fault \in DbFaults : DbFetchAll(m, fault)
    \/ \E m \in Managers, fault \in {"none", "connect"} : DbEnter(m, fault)
    \/ \E m \in Managers : DbExit(m)

SpecDb == Init /\ [][NextDb]_vars

(***************************************************************************)
(* The page scripts, one run (unit of work) at a time.  A run builds its own *)
(* DatabaseManager, makes its store calls through it, and ends at the        *)
(* script's last line, db.close(), unless st.stop(), st.rerun(),             *)
(* st.switch_page() or an exception ends it before.                          *)
(* fault: none, or the store call that raises: connect (sqlite3.connect of   *)
(* the first call), list (the statement of the first query), write (the      *)
(* statement of the handler's first write).                                  *)
(***************************************************************************)
RunFaults == {"none", "connect", "list", "write"}

\* The fault of the page's first store call.
FirstCall(fault) ==
    IF fault = "connect" THEN "connect"
    ELSE IF fault = "list" THEN "statement" ELSE "none"

\* The fault of the handler's write.
WriteCall(fault) == IF fault = "write" THEN "statement" ELSE "none"

\* A ticket update that reports success only when both updates matched a row.
update_report_Both(success_status, success_assign) ==
    IF success_status /\ success_assign THEN "updated" ELSE "failed"

\* The Update Ticket handler's report: success_assign is not looked at.
update_report(success_status, success_assign) ==
    IF success_status THEN "updated" ELSE "failed"

\* Home.py.  event: view, login (the Login button), register (Create Account);
\* confirm: the two password fields of the register tab agree.
home_page(tbl, sess, event, username, password, confirm, salt, fault) ==
    LET m0 == DatabaseManager
        base == [users |-> tbl, session |-> sess,
                 run |-> [Run("Home", event, "end", close(m0))
                              EXCEPT !.args = [username |-> username]]]
    IN  CASE event = "login" /\ username # "" /\ password # << >> ->
               LET m1 == fetch_one(m0, FirstCall(fault))
                   user == login_user(tbl, username, password, m1.raised)
               IN  IF user # None
                   THEN [base EXCEPT !.session = SessionOf(Get(user)),
                                     !.run.exit = "switch", !.run.db = m1,
                                     !.run.report = MsgWelcome]
                   ELSE [base EXCEPT !.run.db = close(m1),
                                     !.run.report = MsgInvalidLogin]
          [] event = "login" /\ (username = "" \/ password = << >>) ->
               [base EXCEPT !.run.report = MsgEnterBoth]
          [] event = "register" /\ username # "" /\ password # << >>
                /\ Len(username) >= 3 /\ confirm ->
               LET chk == register_check(tbl, username, password, FALSE)
                   m1 == IF chk.next = "pass" \/ chk.msg = MsgExists
                         THEN fetch_one(m0, FirstCall(fault)) ELSE m0
                   m2 == IF chk.next = "pass" /\ ~m1.raised
                         THEN execute_query(m1, WriteCall(fault)) ELSE m1
                   res == register_user(tbl, username, password, "user", salt,
                                        m1.raised, m2.raised)
               IN  IF res.raised
                   THEN [base EXCEPT !.run.exit = "fault", !.run.db = m1]
                   ELSE [base EXCEPT !.users = res.tbl, !.run.db = close(m2),
                                     !.run.report = res.msg]
          [] OTHER -> base

\* pages/2_Cybersecurity.py.  event: view, create (Add Incident), update
\* (Update Status), delete, back (Back to Dashboard).
cybersecurity_page(tbl, sess, event, severity, description, incident_id, new_status, fault) ==
    LET m0 == DatabaseManager
        m1 == fetch_all(m0, FirstCall(fault))
        m2 == execute_query(m1, WriteCall(fault))
        base == [incidents |-> tbl,
                 run |-> [Run("Cybersecurity", event, "end", close(m1))
                              EXCEPT !.id = incident_id, !.before = tbl]]
    IN  CASE ~AuthCheck(sess) ->
               [base EXCEPT !.run.exit = "stop", !.run.db = m0]
          [] AuthCheck(sess) /\ m1.raised ->
               [base EXCEPT !.run.exit = "fault", !.run.db = m1]
          [] AuthCheck(sess) /\ ~m1.raised /\ event = "back" ->
               [base EXCEPT !.run.exit = "switch", !.run.db = m1]
          [] AuthCheck(sess) /\ ~m1.raised /\ event = "create"
                /\ description # "" ->
               LET res == create_incident(tbl, "Phishing", severity, description,
                                          Some(sess.username))
               IN  IF m2.raised \/ res.raised
                   THEN [base EXCEPT !.run.exit = "fault", !.run.db = m2]
                   ELSE [base EXCEPT !.incidents = res.tbl, !.run.id = res.id,
                                     !.run.exit = "rerun", !.run.db = m2,
                                     !.run.report = "created"]
          [] AuthCheck(sess) /\ ~m1.raised /\ event = "update"
                /\ incident_id \in Ids(tbl) ->
               LET res == update_incident_status(tbl, incident_id, new_status)
               IN  IF m2.raised
                   THEN [base EXCEPT !.run.exit = "fault", !.run.db = m2]
                   ELSE IF res.ok
                   THEN [base EXCEPT !.incidents = res.tbl, !.run.exit = "rerun",
                                     !.run.db = m2, !.run.report = "updated"]
                   ELSE [base EXCEPT !.run.db = close(m2), !.run.report = "failed"]
          [] AuthCheck(sess) /\ ~m1.raised /\ event = "delete"
                /\ incident_id \in Ids(tbl) ->
               LET res == delete_incident(tbl, incident_id)
               IN  IF m2.raised
                   THEN [base EXCEPT !.run.exit = "fault", !.run.db = m2]
                   ELSE IF res.ok
                   THEN [base EXCEPT !.incidents = res.tbl, !.run.exit = "rerun",
                                     !.run.db = m2, !.run.report = "deleted"]
                   ELSE [base EXCEPT !.run.db = close(m2), !.run.report = "failed"]
          [] OTHER -> base

\* pages/4_IT_Operations.py.  event: view, create (Create Ticket), update
\* (Update Ticket), back.  mid, for update: none; gone, another session deletes
\* the ticket after it was listed; fault, the assignee's UPDATE raises;
\* deleted, another session deletes the ticket between the two UPDATEs.
it_operations_page(tbl, sess, event, priority, description, ticket_id, new_status, new_assignee, fault, mid) ==
    LET m0 == DatabaseManager
        m1 == fetch_all(m0, FirstCall(fault))
        m2 == execute_query(m1, WriteCall(fault))
        base == [tickets |-> tbl,
                 run |-> [Run("ITOperations", event, "end", close(m1))
                              EXCEPT !.id = ticket_id, !.before = tbl, !.mid = mid,
                                     !.args = [new_status |-> new_status,
                                               new_assignee |-> new_assignee]]]
    IN  CASE ~AuthCheck(sess) ->
               [base EXCEPT !.run.exit = "stop", !.run.db = m0]
          [] AuthCheck(sess) /\ m1.raised ->
               [base EXCEPT !.run.exit = "fault", !.run.db = m1]
          [] AuthCheck(sess) /\ ~m1.raised /\ event = "back" ->
               [base EXCEPT !.run.exit = "switch", !.run.db = m1]
          [] AuthCheck(sess) /\ ~m1.raised /\ event = "create"
                /\ description # "" ->
               LET res == create_ticket(tbl, priority, description,
                                        IF new_assignee = "Unassigned" THEN None
                                        ELSE Some(new_assignee))
               IN  IF m2.raised \/ res.raised
                   THEN [base EXCEPT !.run.exit = "fault", !.run.db = m2]
                   ELSE [base EXCEPT !.tickets = res.tbl, !.run.id = res.id,
                                     !.run.exit = "rerun", !.run.db = m2,
                                     !.run.report = "created"]
          [] AuthCheck(sess) /\ ~m1.raised /\ event = "update"
                /\ ticket_id \in Ids(tbl) ->
               LET listed == IF mid = "gone" THEN delete_ticket(tbl, ticket_id).tbl
                             ELSE tbl
                   st == update_ticket_status(listed, ticket_id, new_status)
                   between == IF mid = "deleted"
                              THEN delete_ticket(st.tbl, ticket_id).tbl ELSE st.tbl
                   assigns == new_assignee # "Keep Current"
                   as == IF assigns
                         THEN assign_ticket(between, ticket_id, new_assignee)
                         ELSE [ok |-> FALSE, tbl |-> between]
                   m3 == IF assigns
                         THEN execute_query(m2, IF mid = "fault" THEN "statement"
                                                ELSE "none")
                         ELSE m2
                   done == [base EXCEPT !.run.success_status = st.ok,
                                        !.run.success_assign = as.ok]
               IN  IF m2.raised
                   THEN [base EXCEPT !.run.exit = "fault", !.run.db = m2]
                   ELSE IF m3.raised
                   THEN [base EXCEPT !.tickets = between, !.run.exit = "fault",
                                     !.run.db = m3, !.run.success_status = st.ok]
                   ELSE IF update_report(st.ok, as.ok) = "updated"
                   THEN [done EXCEPT !.tickets = as.tbl, !.run.exit = "rerun",
                                     !.run.db = m3, !.run.report = "updated"]
                   ELSE [done EXCEPT !.tickets = as.tbl, !.run.db = close(m3),
                                     !.run.report = "failed"]
          [] OTHER -> base

HomeRun(event, username, password, confirm, salt, fault) ==
    LET res == home_page(users, session, event, username, password, confirm, salt,
                         fault)
    IN  /\ Len(res.users) <= MaxUsers
        /\ users' = res.users
        /\ session' = res.session
        /\ run' = res.run
        /\ UNCHANGED <<last, pend, cpend, db>>
        /\ UNCHANGED recVars

\* The two pages share no table: a behaviour works on the rows of one of them.
CyberRun(event, severity, description, incident_id, new_status, fault) ==
    LET res == cybersecurity_page(incidents, session, event, severity, description,
                                  incident_id, new_status, fault)
    IN  /\ tickets = {}
        /\ Cardinality(res.incidents) > Cardinality(incidents) =>
              CanCreate(res.run.id, 1000)
        /\ incidents' = res.incidents
        /\ run' = res.run
        /\ UNCHANGED <<tickets, datasets, issued, rec, cpend, db>>
        /\ UNCHANGED authVars

ITRun(event, priority, description, ticket_id, new_status, new_assignee, fault, mid) ==
    LET res == it_operations_page(tickets, session, event, priority, description,
                                  ticket_id, new_status, new_assignee, fault, mid)
    IN  /\ incidents = {}
        /\ Cardinality(res.tickets) > Cardinality(tickets) =>
              CanCreate(res.run.id, 2000)
        /\ tickets' = res.tickets
        /\ run' = res.run
        /\ UNCHANGED <<incidents, datasets, issued, rec, cpend, db>>
        /\ UNCHANGED authVars

FormStatuses == {"Open", "Closed"}
Reassign == {"Keep Current", "IT_Support_B"}
UnitUsers == {"", "alice"}
UnitPasswords == {PwEmpty, PwNoDigits, PwGoodPass1}

\* Each page, event by event, with the inputs and the faults the event's
\* handler meets.  In a create of the IT Operations page the assignee is the
\* form's "Assign To".
NextUnit ==
    \/ \E fault \in {"none", "list"} :
          HomeRun("view", "", PwEmpty, FALSE, "s1", fault)
    \/ \E u \in UnitUsers, p \in UnitPasswords, fault \in {"none", "connect", "list"} :
          HomeRun("login", u, p, FALSE, "s1", fault)
    \/ \E u \in UnitUsers, p \in UnitPasswords, confirm \in BOOLEAN,
          fault \in {"none", "connect", "list"} :
          HomeRun("register", u, p, confirm, "s1", fault)
    \/ \E fault \in {"none", "connect", "list"} :
          CyberRun("view", "High", "", 1001, "Open", fault)
    \/ \E d \in {"", "d1"}, fault \in {"none", "write"} :
          CyberRun("create", "High", d, 1001, "Open", fault)
    \/ \E id \in IdsOf(1000), st \in FormStatuses, fault \in {"none", "write"} :
          CyberRun("update", "High", "", id, st, fault)
    \/ \E id \in IdsOf(1000), fault \in {"none", "write"} :
          CyberRun("delete", "High", "", id, "Open", fault)
    \/ CyberRun("back", "High", "", 1001, "Open", "none")
    \/ \E fault \in {"none", "connect", "list"} :
          ITRun("view", "High", "", 2001, "Open", "Keep Current", fault, "none")
    \/ \E d \in {"", "d2"}, a \in {"Unassigned", "IT_Support_A"},
          fault \in {"none", "write"} :
          ITRun("create", "High", d, 2001, "Open", a, fault, "none")
    \/ \E id \in IdsOf(2000), st \in FormStatuses, na \in Reassign,
          mid \in {"none", "gone", "fault", "deleted"} :
          ITRun("update", "High", "", id, st, na, "none", mid)
    \/ \E id \in IdsOf(2000), st \in FormStatuses :
          ITRun("update", "High", "", id, st, "Keep Current", "write", "none")
    \/ ITRun("back", "High", "", 2001, "Open", "Keep Current", "none", "none")

SpecUnit == Init /\ [][NextUnit]_vars

\* The auth service under every input and every store fault.
Next ==
    \/ \E u \in Usernames, p \in AuthPasswords, r \in Roles, salt \in Salts,
          fault \in Faults : Register(u, p, r, salt, fault)
    \/ \E u \in Usernames, p \in AuthPasswords, fault \in {"none", "read"} :
          Login(u, p, fault)
    \/ \E u \in Usernames, p \in AuthPasswords, fault \in {"none", "read"} :
          Authenticate(u, p, fault)

Spec == Init /\ [][Next]_vars

\* The session over its life: accounts are registered, users log in, open
\* pages and log out.
NextSession ==
    \/ \E u \in ValidUsernames, r \in Roles, salt \in Salts :
          Register(u, PwGoodPass1, r, salt, "none")
    \/ \E u \in ValidUsernames \cup {"ghost"}, p \in StrongPasswords :
          Login(u, p, "none")
    \/ \E page \in Pages, pressLogout \in BOOLEAN : PageRun(page, pressLogout)
    \/ AppLogout

SpecSession == Init /\ [][NextSession]_vars

\* Two callers registering at once: their store calls interleave.
NextRace ==
    \/ \E c \in Callers, u \in ValidUsernames \cup {"al"}, p \in StrongPasswords,
          r \in Roles : RegisterCheck(c, u, p, r)
    \/ \E c \in Callers, salt \in Salts : RegisterInsert(c, salt)

SpecRace == Init /\ [][NextRace]_vars

(***************************************************************************)
(* The credential manager on its own: the strength rule and the hasher     *)
(* applied to passwords.                                                   *)
(***************************************************************************)
MaxTail == 3
PolicyChars == {"Q", "q", "7"}
\* Six characters that are neither letters nor digits.
PolicyBase == <<"-", "-", "-", "-", "-", "-">>
\* PolicyBase followed by every tail of at most MaxTail characters over
\* PolicyChars (6 to 6 + MaxTail characters, every mix of the three classes),
\* the passwords of section 8, one whose only digit is a superscript, two long
\* ones.
PolicyPasswords ==
    {PolicyBase \o t : t \in UNION {[1..n -> PolicyChars] : n \in 0..MaxTail}}
        \cup Passwords \cup {PwSuperscript, PwLongX, PwLongY}
HashPasswords == StrongPasswords \cup {PwSuperscript, PwLongX, PwLongY}
HashSalts == {"s1", "s2"}
\* Stored values that are no bcrypt hash: an empty one and a plain password.
MalformedHashes ==
    {[wellformed |-> FALSE, salt |-> "", digest |-> << >>],
     [wellformed |-> FALSE, salt |-> "", digest |-> PwGoodPass1]}

\* A call of PasswordHasher.validate_password.
ValidatePassword(p) ==
    /\ last' = Last("validate", "", p, "", validate_password(p).valid,
                    validate_password(p).msg, FALSE, FALSE, << >>, "", {})
    /\ UNCHANGED <<users, session, pend>>
    /\ UNCHANGED <<recVars, storeVars>>

\* hash_password(hashed) under a fresh salt, then check_password(p, that hash).
\* An exception of hash_password reaches the caller; check_password has none.
HashThenCheck(p, hashed, salt, build) ==
    LET h == hash_password_on(build, hashed, salt)
    IN  /\ last' = [Last("verify", "", p, "",
                         IF h.raised THEN FALSE
                         ELSE check_password_on(build, p, h.hash),
                         "", h.raised, FALSE, << >>, "", {})
                        EXCEPT !.returned = Some([of |-> hashed, salt |-> salt,
                                                  build |-> build,
                                                  wellformed |-> TRUE])]
        /\ UNCHANGED <<users, session, pend>>
        /\ UNCHANGED <<recVars, storeVars>>

\* check_password(p, stored) on a stored value that is no bcrypt hash.
CheckMalformed(p, stored, build) ==
    /\ last' = [Last("verify", "", p, "", check_password_on(build, p, stored),
                     "", FALSE, FALSE, << >>, "", {})
                    EXCEPT !.returned = Some([of |-> stored.digest, salt |-> "",
                                              build |-> build,
                                              wellformed |-> FALSE])]
    /\ UNCHANGED <<users, session, pend>>
    /\ UNCHANGED <<recVars, storeVars>>

NextCred ==
    \/ \E p \in PolicyPasswords : ValidatePassword(p)
    \/ \E p \in HashPasswords, hashed \in HashPasswords, salt \in HashSalts,
          build \in Builds : HashThenCheck(p, hashed, salt, build)
    \/ \E p \in HashPasswords, stored \in MalformedHashes, build \in Builds :
          CheckMalformed(p, stored, build)

SpecCred == Init /\ [][NextCred]_vars

(***************************************************************************)
(* Accounts over their life: registrations under any role value and        *)
(* passwords of any length, then logins.  No store fault.                  *)
(***************************************************************************)
\* The values register_user takes as role: it is a str, stored as passed.
RoleValues == Roles \cup {"analyst", "root"}
AccountPasswords == {PwGoodPass1, PwLongX, PwLongY}

NextAccount ==
    \/ \E u \in ValidUsernames, p \in AccountPasswords, r \in RoleValues,
          salt \in Salts : Register(u, p, r, salt, "none")
    \/ \E u \in ValidUsernames, p \in AccountPasswords : Login(u, p, "none")

SpecAccount == Init /\ [][NextAccount]_vars

(***************************************************************************)
(* The two auth layers side by side: each call is made on both, from the   *)
(* same users table, with the same arguments, salt and store fault.        *)
(***************************************************************************)
\* AuthManager.register_user and app.auth.register_user; the store goes on
\* from the table AuthManager left.
RegisterBoth(u, p, r, salt, fault) ==
    LET res == register_user(users, u, p, r, salt, fault = "read", fault = "write")
        app == app_register_user(users, u, p, r, salt, fault = "read", fault = "write")
    IN  /\ Len(res.tbl) <= MaxUsers
        /\ users' = res.tbl
        /\ last' = [Last("register_both", u, p, r, res.ok, res.msg, res.raised,
                         res.wrote, users, "", {})
                        EXCEPT !.returned = Some(app)]
        /\ UNCHANGED <<session, pend>>
        /\ UNCHANGED <<recVars, storeVars>>

\* AuthManager.login_user and app.auth.authenticate_user.
LoginBoth(u, p, fault) ==
    LET user == login_user(users, u, p, fault = "read")
        app == authenticate_user(users, u, p, fault = "read")
    IN  /\ last' = [Last("login_both", u, p, "", user # None, "", FALSE, FALSE,
                         users, "", {})
                        EXCEPT !.returned = Some([user |-> user, app |-> app])]
        /\ UNCHANGED <<users, session, pend>>
        /\ UNCHANGED <<recVars, storeVars>>

NextRefine ==
    \/ \E u \in Usernames, p \in AuthPasswords \cup {PwSuperscript}, r \in Roles,
          salt \in Salts, fault \in Faults : RegisterBoth(u, p, r, salt, fault)
    \/ \E u \in Usernames, p \in AuthPasswords \cup {PwSuperscript},
          fault \in {"none", "read"} : LoginBoth(u, p, fault)

SpecRefine == Init /\ [][NextRefine]_vars

(***************************************************************************)
(* What the claims speak of, stated apart from the code's own checks.      *)
(***************************************************************************)
HasAccount(tbl, username) == \E i \in DOMAIN tbl : tbl[i].username = username

AccountOf(tbl, username) == CHOOSE i \in DOMAIN tbl : tbl[i].username = username

StrongPw(p) ==
    /\ Len(p) >= 8
    /\ \E i \in DOMAIN p : p[i] \in UpperChars
    /\ \E i \in DOMAIN p : p[i] \in LowerChars
    /\ \E i \in DOMAIN p : p[i] \in DecimalDigits

WeakMsgs == {MsgPwLength, MsgPwUpper, MsgPwLower, MsgPwDigit}

\* The error of the specification that a message stands for.
ErrorKind(msg) ==
    CASE msg \in {MsgRequired, MsgShortUser, MsgEnterBoth} -> "InvalidInput"
      [] msg \in WeakMsgs -> "WeakPassword"
      [] msg = MsgExists -> "DuplicateUsername"
      [] msg = MsgNotFound -> "NotFound"
      [] msg = MsgIncorrect -> "InvalidCredentials"
      [] msg \in {MsgRegFailed, MsgAuthError} -> "AuthError"
      [] OTHER -> "Unspecified"

\* The password that was registered for the account matches p.
PasswordMatches(tbl, username, p) ==
    tbl[AccountOf(tbl, username)].password_hash.digest = p

(***************************************************************************)
(* C1 .. C8: the auth service and the session.                             *)
(***************************************************************************)
\* C1: register reports the first violated precondition in the order
\* non-empty fields, username length, password strength, username not taken.
C1_RegisterOrder ==
    last.op = "register" =>
        LET u == last.username
            p == last.password
            e1 == u = "" \/ p = << >>
            e2 == Len(u) < 3
            e3 == ~StrongPw(p)
            e4 == HasAccount(last.before, u)
        IN  /\ e1 => ~last.ok /\ last.msg = MsgRequired
            /\ ~e1 /\ e2 => ~last.ok /\ last.msg = MsgShortUser
            /\ ~e1 /\ ~e2 /\ e3 => ~last.ok /\ ErrorKind(last.msg) = "WeakPassword"
            /\ ~e1 /\ ~e2 /\ ~e3 /\ e4 /\ ~last.raised =>
                   ~last.ok /\ last.msg = MsgExists
            /\ ~e1 /\ ~e2 /\ ~e3 /\ ~e4 /\ ~last.raised =>
                   last.ok \/ last.msg = MsgRegFailed

\* A register call with a weak password for a username that is taken.
C1_Witness ==
    /\ last.op = "register"
    /\ HasAccount(last.before, last.username)
    /\ last.password # << >>
    /\ ~StrongPw(last.password)
    /\ ErrorKind(last.msg) = "WeakPassword"

\* C2 as claimed: a second registration of a username fails with
\* DuplicateUsername whatever its password, and leaves the table unchanged.
C2_DuplicateWhateverPassword ==
    (/\ last.op = "register"
     /\ HasAccount(last.before, last.username)
     /\ last.password # << >>
     /\ ~last.raised)
        => ErrorKind(last.msg) = "DuplicateUsername" /\ users = last.before

\* C2 amended: a second registration of a username changes nothing and fails
\* with the first violated precondition: InvalidInput for an empty password,
\* WeakPassword for a weak one, DuplicateUsername for every strong one.
C2_DuplicateRejected ==
    (last.op = "register" /\ HasAccount(last.before, last.username)) =>
        /\ users = last.before
        /\ ~last.ok
        /\ ~last.raised =>
              /\ last.password = << >> => ErrorKind(last.msg) = "InvalidInput"
              /\ (last.password # << >> /\ ~StrongPw(last.password)) =>
                     ErrorKind(last.msg) = "WeakPassword"
              /\ StrongPw(last.password) => ErrorKind(last.msg) = "DuplicateUsername"

\* A second registration with another strong password than the first.
C2_Witness ==
    /\ last.op = "register"
    /\ HasAccount(last.before, last.username)
    /\ StrongPw(last.password)
    /\ ~PasswordMatches(last.before, last.username, last.password)
    /\ last.msg = MsgExists

\* C3: no two rows of the users table have the same username.
C3_UniqueUsernames ==
    \A i \in DOMAIN users, j \in DOMAIN users :
        i # j => users[i].username # users[j].username

\* Two callers passed the existence check for one username; one has inserted
\* and the other's insert has just failed.
C3_Witness ==
    /\ last.op = "register"
    /\ last.wrote
    /\ last.msg = MsgRegFailed
    /\ HasAccount(last.before, last.username)

C5_NoStoreExceptionPropagates ==
    last.op \in {"register", "login", "authenticate"} => ~last.raised

\* C6: a register call that violates a precondition issues no write and
\* leaves the users table as it was.
C6_NoWriteOnValidationFailure ==
    (/\ last.op = "register"
     /\ \/ last.username = "" \/ last.password = << >>
        \/ Len(last.username) < 3
        \/ ~StrongPw(last.password)
        \/ HasAccount(last.before, last.username)) =>
        ~last.wrote /\ users = last.before

\* A register call refused for a duplicate username, the table being non-empty.
C6_Witness ==
    /\ last.op = "register"
    /\ StrongPw(last.password)
    /\ HasAccount(last.before, last.username)
    /\ last.msg = MsgExists
    /\ ~last.wrote

\* C7: a successful login fills the four session fields from the account, and
\* every logout resets all four to their defaults.
C7_SessionLifecycle ==
    /\ (last.op = "login" /\ last.ok) =>
           /\ session.logged_in
           /\ session.username = last.username
           /\ HasAccount(users, last.username)
           /\ session.user_id = Some(users[AccountOf(users, last.username)].id)
           /\ session.role = users[AccountOf(users, last.username)].role
    /\ last.op = "logout" => session = SessionDefaults

\* C8: every record service call of a page run is made with the session's
\* authenticated flag set.
C8_ServiceCallsAuthenticated ==
    /\ \A c \in last.calls : c.logged_in
    /\ (last.op \in {"page", "logout"} /\ ~last.ok) => last.calls = {}

\* A page opened after a logout: the run stopped before its service was made.
C8_Witness ==
    /\ last.op = "page"
    /\ last.page \in Pages
    /\ users # << >>
    /\ ~session.logged_in
    /\ ~last.ok
    /\ last.calls = {}

(***************************************************************************)
(* C9 .. C10: create and the ids it assigns.                               *)
(***************************************************************************)
\* C9: after create, getById of the returned id gives an entity with status
\* "Open" (incidents, tickets) and every supplied field as it was passed.
C9_CreateThenGet ==
    /\ (rec.svc = "IncidentService" /\ rec.op = "create") =>
           LET e == get_incident_by_id(incidents, rec.id)
           IN  /\ e # None
               /\ Get(e).status = "Open"
               /\ Get(e).incident_type = rec.args.incident_type
               /\ Get(e).severity = rec.args.severity
               /\ Get(e).description = rec.args.description
               /\ Get(e).reported_by = rec.args.reported_by
    /\ (rec.svc = "TicketService" /\ rec.op = "create") =>
           LET e == get_ticket_by_id(tickets, rec.id)
           IN  /\ e # None
               /\ Get(e).status = "Open"
               /\ Get(e).priority = rec.args.priority
               /\ Get(e).description = rec.args.description
               /\ Get(e).assigned_to = rec.args.assigned_to
    /\ (rec.svc = "DatasetService" /\ rec.op = "create") =>
           LET e == get_dataset_by_id(datasets, rec.id)
           IN  /\ e # None
               /\ Get(e).name = rec.args.name
               /\ Get(e).rows = rec.args.rows
               /\ Get(e).columns = rec.args.columns
               /\ Get(e).uploaded_by = rec.args.uploaded_by

\* C10: every id create returns is larger than every id it returned before.
C10_IdsNeverReused ==
    rec.op = "create" => rec.id > rec.prior

(***************************************************************************)
(* C11 .. C17: the record services, call by call.                          *)
(***************************************************************************)
\* The table of a record service as it is now.
TableOf(svc) ==
    CASE svc = "IncidentService" -> incidents
      [] svc = "TicketService" -> tickets
      [] svc = "DatasetService" -> datasets
      [] OTHER -> {}

\* The floor of the specification's id allocation policy.
FloorOf(svc) == IF svc = "IncidentService" THEN 1000
                ELSE IF svc = "TicketService" THEN 2000 ELSE 0

\* The largest of a non-empty set of ids.
MaxOf(ids) == CHOOSE m \in ids : \A i \in ids : i <= m

\* C11: create returns (largest id in the table) + 1 on a non-empty table and
\* floor + 1 on an empty one, floor being 1000, 2000, 0 for incidents, tickets,
\* datasets; the row it inserts carries the id it returns.
C11_NextIdPolicy ==
    (rec.op = "create" /\ rec.ok) =>
        /\ rec.id = IF rec.before = {} THEN FloorOf(rec.svc) + 1
                    ELSE MaxOf(Ids(rec.before)) + 1
        /\ \E row \in TableOf(rec.svc) :
              /\ row.id = rec.id
              /\ TableOf(rec.svc) = rec.before \cup {row}
              /\ row \notin rec.before

C11_Witness ==
    /\ rec.op = "create" /\ rec.ok
    /\ rec.svc = "TicketService"
    /\ rec.before # {}
    /\ rec.id = 2002

\* C13: updateStatus(id, "Closed") with an id not in the table returns false
\* and leaves every row as it was.
C13_UpdateMissingId ==
    (rec.op = "update_status" /\ rec.args.new_status = "Closed"
        /\ rec.id \notin Ids(rec.before)) =>
        /\ ~rec.ok
        /\ TableOf(rec.svc) = rec.before

C13_Witness ==
    /\ rec.op = "update_status" /\ rec.args.new_status = "Closed"
    /\ rec.before # {}
    /\ rec.id \notin Ids(rec.before)
    /\ ~rec.ok

\* C14: updateStatus, assign and delete return true exactly when a row with
\* the id is in the table when they are called, be the new status the row's
\* own or not; a delete of an id already deleted returns false.
C14_TrueIffRowExists ==
    (rec.op \in {"update_status", "assign", "delete"}) =>
        /\ rec.ok <=> rec.id \in Ids(rec.before)
        /\ (rec.op = "delete") => rec.id \notin Ids(TableOf(rec.svc))

C14_Witness ==
    /\ rec.op = "update_status" /\ rec.ok
    /\ \E row \in rec.before : row.id = rec.id /\ row.status = rec.args.new_status
    /\ TableOf(rec.svc) = rec.before

\* C15: listAll returns the rows now in the table, each once, the ids strictly
\* descending, and the empty sequence on an empty table; after N creates and
\* one delete, from an empty table, it has N - 1 entities.
C15_ListAll ==
    (rec.op = "get_all") =>
        /\ {rec.result[i].id : i \in DOMAIN rec.result} = Ids(TableOf(rec.svc))
        /\ Len(rec.result) = Cardinality(TableOf(rec.svc))
        /\ \A i, j \in DOMAIN rec.result : i < j => rec.result[i].id > rec.result[j].id
        /\ TableOf(rec.svc) = {} => rec.result = << >>
        /\ Len(rec.result) = rec.made - rec.gone

C15_Witness ==
    /\ rec.op = "get_all"
    /\ rec.made = 3 /\ rec.gone = 1
    /\ Len(rec.result) = 2
    /\ rec.result[1].id > rec.result[2].id

\* The sum of the counts of a dict of counts.
RECURSIVE SumCounts(_)
SumCounts(d) ==
    IF DOMAIN d = {} THEN 0
    ELSE LET k == CHOOSE k \in DOMAIN d : TRUE
         IN  d[k] + SumCounts([j \in DOMAIN d \ {k} |-> d[j]])

\* C16: the counts of by_status, and those of by_priority, sum to the number
\* of tickets; a status or priority no ticket has reads as 0;
\* avg_resolution_hours is 0 when no ticket has a resolution time.  For
\* datasets dataset_count is the number of rows of the table and total_rows the
\* sum of their rows, 0 on an empty table.
C16_Statistics ==
    /\ (rec.op = "statistics" /\ rec.svc = "TicketService") =>
        /\ SumCounts(rec.result.by_status) = Cardinality(tickets)
        /\ SumCounts(rec.result.by_priority) = Cardinality(tickets)
        /\ \A st \in TicketStatuses :
              (\A row \in tickets : row.status # st) =>
                  dict_get(rec.result.by_status, st, 0) = 0
        /\ \A pr \in SeverityLevels :
              (\A row \in tickets : row.priority # pr) =>
                  dict_get(rec.result.by_priority, pr, 0) = 0
        /\ \A st \in TicketStatuses :
              dict_get(rec.result.by_status, st, 0)
                  = Cardinality({row \in tickets : row.status = st})
        /\ (\A row \in tickets : row.resolution_time_hours = None) =>
              rec.result.avg_resolution_hours = 0
    /\ (rec.op = "statistics" /\ rec.svc = "DatasetService") =>
        /\ rec.result.dataset_count = Cardinality(datasets)
        /\ rec.result.total_rows = sum_of(datasets, "rows")
        /\ datasets = {} => rec.result.total_rows = 0

C16_Witness ==
    /\ rec.op = "statistics" /\ rec.svc = "TicketService"
    /\ Cardinality(tickets) = 2
    /\ \E t1, t2 \in tickets : t1.status # t2.status /\ t1.priority = t2.priority
    /\ dict_get(rec.result.by_status, "Resolved", 0) = 0

\* C17: every stored incident has its severity and status, every stored ticket
\* its priority and status, in the enumerated sets, whatever the arguments of
\* create and updateStatus.
C17_EnumeratedValues ==
    /\ \A row \in incidents :
          row.severity \in SeverityLevels /\ row.status \in IncidentStatuses
    /\ \A row \in tickets :
          row.priority \in SeverityLevels /\ row.status \in TicketStatuses

\* C12: two creates of one service that both read the largest id before either
\* inserts compute the same id; the second INSERT then fails on the primary
\* key: no table ever holds two rows with one id, and the row the first
\* create stored stays as it was.
C12_NoDuplicateIds ==
    /\ \A svc \in Services :
          \A r1, r2 \in TableOf(svc) : r1.id = r2.id => r1 = r2
    /\ (rec.op = "create" /\ rec.id \in Ids(rec.before)) =>
          /\ ~rec.ok
          /\ TableOf(rec.svc) = rec.before
    /\ (rec.op = "create" /\ rec.id \notin Ids(rec.before)) =>
          /\ rec.ok
          /\ rec.before \subseteq TableOf(rec.svc)

C12_Witness ==
    /\ rec.op = "create" /\ ~rec.ok
    /\ rec.svc = "IncidentService"
    /\ \E row \in rec.before :
          row.id = rec.id /\ row.severity # rec.args.severity
    /\ TableOf(rec.svc) = rec.before

(***************************************************************************)
(* C18 .. C20: the store connection and the unit of work.                  *)
(***************************************************************************)
QueryOps == {"execute_query", "fetch_one", "fetch_all"}

\* C19: a manager holds no connection until its first connect or query;
\* connect on a manager that holds one opens no other; close on a manager
\* that holds none changes nothing; a query on a manager that holds none,
\* closed before or never opened, opens a new connection; and no manager ever
\* has more than one connection open.
C19_LazySingleConnection ==
    \A m \in Managers :
        /\ db[m].op = "init" => (db[m].connection = None /\ db[m].opened = 0)
        /\ db[m].opened = 0 => db[m].connection = None
        /\ (db[m].op \in {"connect", "enter"} /\ db[m].was # None) =>
              (db[m].connection = db[m].was /\ db[m].opened = db[m].had)
        /\ (db[m].op \in {"close", "exit"} /\ db[m].was = None) =>
              (db[m].connection = None /\ db[m].opened = db[m].had)
        /\ (db[m].op \in {"close", "exit"}) => db[m].connection = None
        /\ (db[m].op \in QueryOps /\ db[m].was = None /\ db[m].connection # None) =>
              (db[m].connection = Some(db[m].had + 1) /\ db[m].opened = db[m].had + 1)
        /\ (db[m].op \in QueryOps /\ db[m].was = None /\ ~db[m].raised) =>
              db[m].connection # None
        /\ (db[m].op \in QueryOps /\ db[m].was # None) =>
              (db[m].connection = db[m].was /\ db[m].opened = db[m].had)
        /\ Cardinality(db[m].live) <= 1
        /\ db[m].live = IF db[m].connection = None THEN {}
                        ELSE {Get(db[m].connection)}

C19_Witness ==
    /\ db["m1"].op = "fetch_one" /\ ~db["m1"].raised
    /\ db["m1"].was = None /\ db["m1"].had = 1
    /\ db["m1"].connection = Some(2)
    /\ db["m2"].op = "connect" /\ db["m2"].was # None

\* The row of a table with the id.
RowOf(tbl, id) == CHOOSE row \in tbl : row.id = id

\* C18: the page's ticket update is two commits, status then assignee: when
\* the second fails the ticket keeps the new status with the assignee it had,
\* nothing takes the status back, and the page's report follows the status
\* update alone.
C18_TwoCommits ==
    (run.page = "ITOperations" /\ run.event = "update"
        /\ run.id \in Ids(run.before)) =>
        /\ (run.exit = "fault" /\ run.mid = "fault" /\ run.db.op = "execute_query"
               /\ run.success_status) =>
              /\ run.id \in Ids(tickets)
              /\ RowOf(tickets, run.id).status = run.args.new_status
              /\ RowOf(tickets, run.id).assigned_to
                    = RowOf(run.before, run.id).assigned_to
              /\ run.report = ""
        /\ (run.exit \in {"rerun", "end"}) =>
              /\ run.report = (IF run.success_status THEN "updated" ELSE "failed")
              /\ run.success_status <=> run.mid # "gone"
              /\ run.exit = (IF run.success_status THEN "rerun" ELSE "end")
        /\ (run.success_status /\ run.id \in Ids(tickets)) =>
              RowOf(tickets, run.id).status = run.args.new_status

C18_Witness ==
    /\ run.page = "ITOperations" /\ run.event = "update"
    /\ run.exit = "fault" /\ run.mid = "fault" /\ run.success_status
    /\ run.id \in Ids(tickets) /\ run.id \in Ids(run.before)
    /\ RowOf(run.before, run.id).status # run.args.new_status
    /\ RowOf(tickets, run.id).status = run.args.new_status
    /\ Some(run.args.new_assignee) # RowOf(tickets, run.id).assigned_to

\* C20: a page run that opened a store connection has closed it when the run
\* is over, however the run ended.
C20_ConnectionReleased ==
    run.db.opened > 0 => (run.db.connection = None /\ run.db.live = {})

(***************************************************************************)
(* C21 .. C30.                                                             *)
(***************************************************************************)
\* C21: no exception of the store during a call of a record service reaches
\* the page that made the call: the service catches it and returns a failure.
C21_NoStoreExceptionReachesPage ==
    (run.page \in {"Cybersecurity", "ITOperations"}) => run.exit # "fault"

\* What the holder of a returned object can read from it: the keys of a dict,
\* the values behind the getters of a User.
Readable(obj) == DOMAIN obj

\* C22: a successful login returns the id, username and role of the account,
\* and nothing in what it returns lets the caller read the password hash.
C22_HashNotExposed ==
    (last.op \in {"login", "authenticate"} /\ last.ok) =>
        /\ last.returned # None
        /\ {"id", "username", "role"} \subseteq Readable(Get(last.returned))
        /\ Get(last.returned).username = last.username
        /\ "password_hash" \notin Readable(Get(last.returned))


\* What section 4.1 asks of a password, read off the password itself.
HasUpper(p) == \E i \in DOMAIN p : p[i] \in UpperChars
HasLower(p) == \E i \in DOMAIN p : p[i] \in LowerChars
HasDecimalDigit(p) == \E i \in DOMAIN p : p[i] \in DecimalDigits
FirstViolated(p) ==
    IF Len(p) < 8 THEN MsgPwLength
    ELSE IF ~HasUpper(p) THEN MsgPwUpper
    ELSE IF ~HasLower(p) THEN MsgPwLower
    ELSE IF ~HasDecimalDigit(p) THEN MsgPwDigit
    ELSE MsgPwValid

\* C23: validateStrength accepts a password exactly when it has at least 8
\* characters, an uppercase letter, a lowercase letter and a decimal digit, and
\* the reason it gives is the first rule violated in the order length,
\* uppercase, lowercase, digit.
C23_StrengthRule ==
    (last.op = "validate") =>
        /\ last.ok <=> (FirstViolated(last.password) = MsgPwValid)
        /\ last.msg = FirstViolated(last.password)

\* C24: verify(p, hash(p')) is true exactly when p = p', under every salt, and
\* verify returns false and raises nothing when the stored value is malformed.
C24_VerifyExactlyOwnPassword ==
    (last.op = "verify") =>
        /\ ~last.raised
        /\ Get(last.returned).wellformed =>
               (last.ok <=> (last.password = Get(last.returned).of))
        /\ ~Get(last.returned).wellformed => ~last.ok

\* C25: the role of every account in the store is one of user, analyst, admin,
\* whatever role value the callers of register passed.
C25_RoleInSet ==
    \A i \in DOMAIN users : users[i].role \in {"user", "analyst", "admin"}

\* register(row.username, p, row.role) succeeds with this row as its result:
\* the row holds the hash of p under the salt of that call.
RegisteredWith(row, p) ==
    hash_password(p, row.password_hash.salt) = row.password_hash

\* C27: once register(u, p, r) has succeeded, after any further registers and
\* logins, login(u, p) succeeds and returns the account of username u and role
\* r, login(u, p') fails for every p' # p, and no account is changed or removed.
\* On a step: the accounts of before are kept as they are, and a login as u
\* has the result the claim gives it for every password u's account can have
\* been registered with.
C27_AccountStable ==
    [][/\ \A i \in DOMAIN users : i \in DOMAIN users' /\ users'[i] = users[i]
       /\ (last' # last /\ last'.op = "login") =>
              \A i \in DOMAIN users :
                  users[i].username = last'.username =>
                      \A p \in AccountPasswords :
                          RegisteredWith(users[i], p) =>
                              /\ last'.ok <=> (last'.password = p)
                              /\ last'.ok =>
                                     /\ Get(last'.returned).username = users[i].username
                                     /\ Get(last'.returned).role = users[i].role]_vars

\* listAll() of the service a call was made on, over the table the call saw.
ListAllOf(r) ==
    IF r.svc = "IncidentService" THEN get_all_incidents(r.before)
    ELSE IF r.svc = "TicketService" THEN get_all_tickets(r.before)
    ELSE get_all_datasets(r.before)
\* Does an object's field equal the value of the filter?  An assignee is held
\* as an optional, the filter's value is the name.
FieldIs(obj, column, value) ==
    IF column = "assigned_to" THEN obj[column] = Some(value)
    ELSE obj[column] = value

\* C26: a filtered listing returns exactly the rows whose field equals the
\* value, each once, by id descending, empty when none matches: it is the
\* subsequence of listAll() that the field selects.
C26_FilterIsSubsequenceOfListAll ==
    (rec.op = "get_by") =>
        /\ rec.result = SelectSeq(ListAllOf(rec),
                                  LAMBDA obj : FieldIs(obj, rec.args.column,
                                                       rec.args.value))
        /\ \A i \in DOMAIN rec.result :
               /\ FieldIs(rec.result[i], rec.args.column, rec.args.value)
               /\ \A j \in DOMAIN rec.result : i < j => rec.result[i].id > rec.result[j].id
        /\ {rec.result[i].id : i \in DOMAIN rec.result}
               = {row.id : row \in {q \in rec.before :
                                       FieldIs(q, rec.args.column, rec.args.value)}}

\* A filter by severity that kept one row of a table and left another out.
C26_Witness ==
    /\ rec.op = "get_by" /\ rec.args.column = "severity"
    /\ Len(rec.result) >= 1
    /\ Cardinality(rec.before) > Len(rec.result)

\* The session's (accountId, username, role) are those of one row of the table.
SessionIsAccountOf(sess, tbl) ==
    \E i \in DOMAIN tbl :
        /\ sess.user_id = Some(tbl[i].id)
        /\ sess.username = tbl[i].username
        /\ sess.role = tbl[i].role

\* C28: while the session's flag is true its username is non-empty, its account
\* id is set, and id, username and role are those of one account that was in
\* the store at the login; a failed login sets no flag and changes no field of
\* the session.
C28_SessionNamesOneAccount ==
    /\ [](session.logged_in =>
            /\ session.username # ""
            /\ session.user_id # None
            /\ SessionIsAccountOf(session, users)
            /\ (last.op = "login" /\ last.ok) =>
                   SessionIsAccountOf(session, last.before))
    /\ [][(last'.op = "login" /\ ~last'.ok) => session' = session]_vars

\* A login failed while a session was authenticated.
C28_Witness ==
    /\ session.logged_in /\ SessionIsAccountOf(session, users)
    /\ last.op = "login" /\ ~last.ok /\ last.username # ""

\* The table of a service after the step, and getById on it.
TableAfter(svc) ==
    CASE svc = "IncidentService" -> incidents'
      [] svc = "TicketService" -> tickets'
      [] svc = "DatasetService" -> datasets'
GetByIdOf(svc, tbl, id) ==
    CASE svc = "IncidentService" -> get_incident_by_id(tbl, id)
      [] svc = "TicketService" -> get_ticket_by_id(tbl, id)
      [] svc = "DatasetService" -> get_dataset_by_id(tbl, id)
\* The step left every table but the service's own as it was.
OtherTablesKept(svc) ==
    /\ users' = users
    /\ svc # "IncidentService" => incidents' = incidents
    /\ svc # "TicketService" => tickets' = tickets
    /\ svc # "DatasetService" => datasets' = datasets
\* after is before with, at most, the column of the row of that id changed.
OnlyColumnChanged(before, after, id, column) ==
    /\ {row.id : row \in after} = {row.id : row \in before}
    /\ Cardinality(after) = Cardinality(before)
    /\ \A row \in before :
           \E q \in after :
               /\ q.id = row.id
               /\ \A c \in DOMAIN row : (row.id # id \/ c # column) => q[c] = row[c]
\* after is before without the row of that id.
OnlyRowRemoved(before, after, id) ==
    /\ after \subseteq before
    /\ \A row \in before : row.id # id => row \in after
    /\ \A row \in after : row.id # id

\* C29: updateStatus changes only the status of the row of that id, assign only
\* its assigned_to, delete removes only that row; every other row, column and
\* table is as before, and after delete(id) getById(id) returns none.  A step
\* that writes rec is a call of a record service.
C29_WritesTouchOnlyTheirTarget ==
    [][/\ (rec' # rec /\ rec'.op = "update_status") =>
              /\ OnlyColumnChanged(TableOf(rec'.svc), TableAfter(rec'.svc),
                                   rec'.id, "status")
              /\ OtherTablesKept(rec'.svc)
       /\ (rec' # rec /\ rec'.op = "assign") =>
              /\ OnlyColumnChanged(TableOf(rec'.svc), TableAfter(rec'.svc),
                                   rec'.id, "assigned_to")
              /\ OtherTablesKept(rec'.svc)
       /\ (rec' # rec /\ rec'.op = "delete") =>
              /\ OnlyRowRemoved(TableOf(rec'.svc), TableAfter(rec'.svc), rec'.id)
              /\ OtherTablesKept(rec'.svc)
              /\ GetByIdOf(rec'.svc, TableAfter(rec'.svc), rec'.id) = None]_vars

\* A ticket was deleted while an incident and an account were in the store.
C29_Witness ==
    /\ rec.op = "delete" /\ rec.ok /\ rec.svc = "TicketService"
    /\ incidents # {} /\ users # << >>

\* C30: app.auth.register_user and AuthManager.register_user return the same
\* (success, message) and leave the same users table, from every table and for
\* every input; app.auth.authenticate_user succeeds exactly when
\* AuthManager.login_user returns a User, and with its id, username and role.
C30_FunctionalLayerAgrees ==
    /\ (last.op = "register_both") =>
           /\ Get(last.returned).ok = last.ok
           /\ Get(last.returned).msg = last.msg
           /\ Get(last.returned).raised = last.raised
           /\ Get(last.returned).tbl = users
    /\ (last.op = "login_both") =>
           /\ Get(last.returned).app.success <=> (Get(last.returned).user # None)
           /\ Get(last.returned).app.success =>
                  Get(Get(last.returned).app.user_data)
                      = to_dict(Get(Get(last.returned).user))

\* Both layers turned down a username of two characters; both logged a user in.
C30_Witness ==
    \/ /\ last.op = "register_both" /\ last.msg = MsgShortUser
       /\ Get(last.returned).msg = MsgShortUser
    \/ /\ last.op = "login_both" /\ last.ok /\ Get(last.returned).app.success


====
